---- MODULE Spec2Model ----
(***************************************************************************)
(* A model of the render engine of Raytracing-Rust:                        *)
(*   - the progressive sampler RandomSampler::sample_image, in its two     *)
(*     versions (implementations/src/samplers/random_sampler.rs and        *)
(*     src/image/camera.rs), as a fork-join state machine over two         *)
(*     alternating accumulation buffers (specification Spec);              *)
(*   - the primitive intersection protocol of src/ray_tracing/tracing.rs,  *)
(*     as operators applied to bounded primitives and rays                 *)
(*     (specification SpecPrimitive).                                      *)
(* Floats are modelled as exact rationals plus the IEEE specials NaN and   *)
(* +-infinity; rounding and signed zeros are not modelled.                 *)
(***************************************************************************)
EXTENDS Integers, Sequences, FiniteSets, TLC

VARIABLES
    \* ---- sample_image ----
    variant,              \* which sample_image runs: "random_sampler" or "camera"
    samples_per_pixel,    \* argument
    width,                \* argument
    height,               \* argument
    sky,                  \* argument: the colour the sky function returns
    acceleration_structure, \* argument: "empty" (no primitive) or "populated"
    presentation_update,  \* argument: "Some" or "None" (Option<F>)
    accumulator_buffers,  \* the pair of SamplerProgress, indexed 0 and 1
    presentation_buffer,  \* camera.rs only: the SamplerProgress that is returned
    i,                    \* the loop variable of `for i in 0..samples_per_pixel`
    pc,                   \* position of the thread that called sample_image
    tasks,                \* the chunk tasks of the current rayon scope
    cb,                   \* the presentation callback task / call
    calls,                \* history: the callback invocations made so far
    stamp,                \* history: for each buffer and float index, the iteration that last wrote it
    writes,               \* history: for each float index, the chunks that wrote it in this iteration
    raced,                \* history: a chunk wrote into the buffer a running callback holds
    \* ---- primitives ----
    prim,                 \* the Primitive the operations are called on
    ray,                  \* the Ray argument
    ret,                  \* the last operation called and what it returned
    ppc,                  \* "ready", or "panicked" once an operation panicked
    rounding,             \* how `h * h - a * c` rounds where the products cancel
    \* ---- sort_by_indices ----
    vec,                  \* the slice argument, rearranged in place
    indices,              \* the indices argument (0-based values)
    old_vec,              \* history: vec as it was passed
    spc,                  \* "ready" before the call, "done" after it
    \* ---- get_progress_output ----
    image,                \* the averaged image, one Float per channel
    bytes,                \* the Vec<u8> that is returned
    bpc,                  \* "ready" before the conversion, "done" after it
    \* ---- save_u8_to_image ----
    filename,             \* the filename argument, a sequence of characters
    saved,                \* how the call ended, what it printed and what it wrote
    \* ---- next_float, previous_float ----
    float,                \* the argument, as its bit pattern
    stepped,              \* the last function applied and what it returned
    \* ---- get_progress_output: the polling loop ----
    final_samples,        \* for each sampler, the samples it has to complete
    samples_completed,    \* for each sampler, progress.samples_completed
    poll,                 \* the polling thread: position, samples_sum, exit
    \* ---- sort_by_indices, step by step ----
    sorting               \* position in the loops, index, current_index, passes

samplerVars == <<variant, samples_per_pixel, width, height, sky, acceleration_structure,
                 presentation_update,
                 accumulator_buffers, presentation_buffer, i, pc, tasks, cb, calls,
                 stamp, writes, raced>>
args == <<variant, samples_per_pixel, width, height, sky, acceleration_structure,
          presentation_update>>
primVars == <<prim, ray, ret, ppc, rounding>>
sortVars == <<vec, indices, old_vec, spc>>
byteVars == <<image, bytes, bpc>>
saveVars == <<filename, saved>>
floatVars == <<float, stepped>>
pollVars == <<final_samples, samples_completed, poll>>
restVars == <<saveVars, floatVars, pollVars, sorting>>
utilVars == <<sortVars, byteVars, restVars>>
vars == <<samplerVars, primVars, utilVars>>

(***************************************************************************)
(* Bounds of the model.                                                    *)
(***************************************************************************)
MaxSamples == 3
MaxWidth == 3
MaxHeight == 1
MaxLen == 4       \* slices passed to sort_by_indices have 0 .. MaxLen elements
MaxValue == 1     \* their elements are 0 .. MaxValue

MaxChannel == 4   \* channel values are k / d with k in -1 .. MaxChannel, d in 1 .. MaxChannel

MaxDir == 1       \* ray directions have integer components in -MaxDir .. MaxDir
MaxRadius == 2    \* sphere radii are -1 .. MaxRadius
\* pixel_chunk_size is 10000 in the source; the model runs the same chunk
\* arithmetic with a small chunk so that images of a few pixels already
\* split into several chunks, the last one short.
pixel_chunk_size == 2

(***************************************************************************)
(* Float: exact rationals [n, d] in lowest terms with d > 0, plus          *)
(* NaN = [0, 0] and +-infinity = [+-1, 0].                                 *)
(***************************************************************************)
Abs(x) == IF x < 0 THEN -x ELSE x
Sign(x) == IF x < 0 THEN -1 ELSE IF x > 0 THEN 1 ELSE 0
Min(a, b) == IF a < b THEN a ELSE b
Max(a, b) == IF a > b THEN a ELSE b

RECURSIVE GCD(_, _)
GCD(a, b) == IF b = 0 THEN a ELSE GCD(b, a % b)

NaN == [n |-> 0, d |-> 0]
Inf(s) == [n |-> s, d |-> 0]
IsNaN(a) == a.d = 0 /\ a.n = 0
IsInf(a) == a.d = 0 /\ a.n # 0
IsFinite(a) == a.d # 0

\* the float n/d, for d # 0
Rat(n, d) ==
    LET g == GCD(Abs(n), Abs(d))
        s == Sign(d)
    IN [n |-> (s * n) \div g, d |-> (s * d) \div g]
F(k) == [n |-> k, d |-> 1]
Zero == F(0)

FNeg(a) == [n |-> -a.n, d |-> a.d]
FAdd(a, b) ==
    IF IsNaN(a) \/ IsNaN(b) THEN NaN
    ELSE IF IsInf(a) THEN (IF IsInf(b) /\ b.n # a.n THEN NaN ELSE a)
    ELSE IF IsInf(b) THEN b
    ELSE Rat(a.n * b.d + b.n * a.d, a.d * b.d)
FSub(a, b) == FAdd(a, FNeg(b))
FMul(a, b) ==
    IF IsNaN(a) \/ IsNaN(b) THEN NaN
    ELSE IF IsInf(a) \/ IsInf(b)
         THEN (IF a.n = 0 \/ b.n = 0 THEN NaN ELSE Inf(Sign(a.n) * Sign(b.n)))
    ELSE Rat(a.n * b.n, a.d * b.d)
FDiv(a, b) ==
    IF IsNaN(a) \/ IsNaN(b) THEN NaN
    ELSE IF IsInf(b) THEN (IF IsInf(a) THEN NaN ELSE Zero)
    ELSE IF IsInf(a) THEN (IF b.n = 0 THEN a ELSE Inf(Sign(a.n) * Sign(b.n)))
    ELSE IF b.n = 0 THEN (IF a.n = 0 THEN NaN ELSE Inf(Sign(a.n)))
    ELSE Rat(a.n * b.d, a.d * b.n)
\* a < b; every comparison with NaN is false
FLt(a, b) ==
    /\ ~IsNaN(a)
    /\ ~IsNaN(b)
    /\ IF IsInf(a) /\ IsInf(b) THEN a.n < b.n ELSE a.n * b.d < b.n * a.d
FGt(a, b) == FLt(b, a)

(***************************************************************************)
(* sample_image: constants and helpers.                                    *)
(***************************************************************************)
channels == 3
chunk_size == pixel_chunk_size * channels
pixel_num == width * height

Variants == {"random_sampler", "camera"}
Black == <<Zero, Zero, Zero>>
SkyColours == {Black, <<Rat(1, 2), Rat(7, 10), F(1)>>}

\* SamplerProgress::new
SamplerProgress_new(pn, ch) ==
    [samples_completed |-> 0,
     rays_shot |-> 0,
     current_image |-> [k \in 0 .. pn * ch - 1 |-> Zero]]

\* mutants of Roles: the odd branch hands out buffer 0 in both roles; the
\* roles never alternate
Roles_SameBuffer(k) ==
    IF k % 2 = 0 THEN [previous |-> 0, current |-> 1]
                 ELSE [previous |-> 0, current |-> 0]
Roles_NoSwap(k) == [previous |-> 0, current |-> 1]

\* `let (previous, current) = if i % 2 == 0 {(&.0, &mut .1)} else {(&.1, &mut .0)}`
Roles(k) ==
    IF k % 2 = 0 THEN [previous |-> 0, current |-> 1]
                 ELSE [previous |-> 1, current |-> 0]

\* mutant of CallbackDue: the callback is due in iteration 0 as well
CallbackDue_Always(k) == TRUE

\* `if i != 0`: the iterations in which the callback is due
CallbackDue(k) == k # 0

\* mutant of FinalPrevious: the parity test is inverted
FinalPrevious_Swapped(spp) == IF spp % 2 = 0 THEN 1 ELSE 0

\* the buffer picked after the loop: `if samples_per_pixel % 2 == 0 {.0} else {.1}`
FinalPrevious(spp) == IF spp % 2 = 0 THEN 0 ELSE 1

\* par_chunks_mut(chunk_size) over a slice of len floats: the number of
\* chunks, and the first float index and the length of chunk c
NumChunks(len) == (len + chunk_size - 1) \div chunk_size
ChunkStart_Pixels(c) == c * pixel_chunk_size   \* mutant: a stride in pixels, not floats
ChunkStart(c) == c * chunk_size
ChunkLen(c, len) == Min(chunk_size, len - c * chunk_size)
Chunks == 0 .. NumChunks(pixel_num * channels) - 1

\* Ray::get_colour for the ray through pixel (x, y) in pass k: the radiance
\* estimate and the number of rays the trace consumed.  With no primitive
\* every ray misses and the estimate is the sky colour, for one ray.  With
\* primitives the estimate depends on the random offsets; it is kept as a
\* value that names the pass, the pixel and the channel it belongs to.
get_colour(k, x, y) ==
    IF acceleration_structure = "empty"
    THEN [colour |-> sky, rays |-> 1]
    ELSE LET v == channels * (k * pixel_num + y * width + x) + 1
         IN [colour |-> <<F(v), F(v + 1), F(v + 2)>>,
             rays |-> 1 + ((k + x + y) % 2)]

RECURSIVE SumRays(_, _)
SumRays(t, S) ==
    IF S = {} THEN 0
    ELSE LET c == CHOOSE c \in S : TRUE
         IN t[c].rays_shot + SumRays(t, S \ {c})

NoCallback == [state |-> "none", buf |-> 0, sample |-> 0]

\* sort_by_indices and get_progress_output while they are not called
SortIdle ==
    /\ vec = [k \in {} |-> 0]
    /\ indices = [k \in {} |-> 0]
    /\ old_vec = [k \in {} |-> 0]
    /\ spc = "idle"
BytesIdle ==
    /\ image = <<>>
    /\ bytes = <<>>
    /\ bpc = "idle"
\* save_u8_to_image, next_float and previous_float while they are not called
NotSaved == [state |-> "idle", printed |-> "", encoder |-> "none"]
NotStepped == [op |-> "none", bits |-> 0, wrapped |-> FALSE]
SaveIdle ==
    /\ filename = <<>>
    /\ saved = NotSaved
FloatIdle ==
    /\ float = 0
    /\ stepped = NotStepped
NotPolling ==
    [pc |-> "idle", k |-> 0, samples_sum |-> 0, exit |-> FALSE,
     retried |-> FALSE, torn |-> FALSE]
PollIdle ==
    /\ final_samples = <<>>
    /\ samples_completed = <<>>
    /\ poll = NotPolling
NotSorting ==
    [pc |-> "idle", index |-> 0, current_index |-> 0, passes |-> 0,
     given |-> [k \in {} |-> 0]]
StepsIdle == sorting = NotSorting
RestIdle == SaveIdle /\ FloatIdle /\ PollIdle /\ StepsIdle

\* the state of the primitive operations while sample_image runs
PrimIdle ==
    /\ prim = [kind |-> "None"]
    /\ ray = [origin |-> <<Zero, Zero, Zero>>, direction |-> <<Zero, Zero, Zero>>]
    /\ ret = [op |-> "none", result |-> [outcome |-> "none"]]
    /\ ppc = "ready"
    /\ rounding = "exact"

Init ==
    /\ variant \in Variants
    /\ samples_per_pixel \in 0 .. MaxSamples
    /\ width \in 0 .. MaxWidth
    /\ height \in 0 .. MaxHeight
    /\ sky \in SkyColours
    /\ acceleration_structure \in {"empty", "populated"}
    /\ presentation_update \in {"Some", "None"}
    /\ accumulator_buffers = [b \in {0, 1} |-> SamplerProgress_new(width * height, channels)]
    /\ presentation_buffer = SamplerProgress_new(width * height, channels)
    /\ i = 0
    /\ pc = "loop"
    /\ tasks = [c \in {} |-> 0]
    /\ cb = NoCallback
    /\ calls = <<>>
    /\ stamp = [b \in {0, 1} |-> [k \in 0 .. width * height * channels - 1 |-> -1]]
    /\ writes = [k \in 0 .. width * height * channels - 1 |-> <<>>]
    /\ raced = FALSE
    /\ PrimIdle
    /\ SortIdle
    /\ BytesIdle
    /\ RestIdle

\* lines 39-47 (random_sampler.rs), 84-101 (camera.rs): the loop takes
\* iteration i, picks the roles and opens the rayon scope; camera.rs spawns
\* the callback task on `previous` in that scope when i != 0.
LoopEnter ==
    /\ pc = "loop"
    /\ i < samples_per_pixel
    /\ pc' = "scope"
    /\ tasks' = [c \in Chunks |-> [state |-> "ready", chunk_pixel_i |-> 0, rays_shot |-> 0]]
    /\ cb' = IF variant = "camera" /\ CallbackDue(i)
             THEN [state |-> "spawned", buf |-> Roles(i).previous, sample |-> i]
             ELSE NoCallback
    /\ writes' = [k \in DOMAIN writes |-> <<>>]
    /\ UNCHANGED <<args,
                   accumulator_buffers, presentation_buffer, i, calls, stamp, raced>>
    /\ UNCHANGED <<primVars, utilVars>>

\* a worker takes chunk c: `let mut rng = ...; let mut rays_shot = 0;`
TaskStart(c) ==
    /\ pc = "scope"
    /\ tasks[c].state = "ready"
    /\ tasks' = [tasks EXCEPT ![c].state = "running"]
    /\ UNCHANGED <<args,
                   accumulator_buffers, presentation_buffer, i, pc, cb, calls, stamp,
                   writes, raced>>
    /\ UNCHANGED <<primVars, utilVars>>

\* one pass of `for chunk_pixel_i in 0..(chunk.len() / 3)` in chunk c
TaskPixel(c) ==
    /\ pc = "scope"
    /\ tasks[c].state = "running"
    /\ LET len == ChunkLen(c, pixel_num * channels)
           chunk_pixel_i == tasks[c].chunk_pixel_i
           pixel_i == chunk_pixel_i + pixel_chunk_size * c
           x == pixel_i % width
           y == (pixel_i - x) \div width
           result == get_colour(i, x, y)
           current == Roles(i).current
           at(k) == ChunkStart(c) + chunk_pixel_i * channels + k
           written == {at(0), at(1), at(2)}
       IN /\ chunk_pixel_i < len \div 3
          /\ accumulator_buffers' =
                [accumulator_buffers EXCEPT ![current].current_image =
                    [k \in DOMAIN @ |->
                        IF k = at(0) THEN result.colour[1]
                        ELSE IF k = at(1) THEN result.colour[2]
                        ELSE IF k = at(2) THEN result.colour[3]
                        ELSE @[k]]]
          /\ tasks' = [tasks EXCEPT ![c].chunk_pixel_i = @ + 1,
                                    ![c].rays_shot = @ + result.rays]
          /\ stamp' = [stamp EXCEPT ![current] =
                          [k \in DOMAIN @ |-> IF k \in written THEN i ELSE @[k]]]
          /\ writes' = [k \in DOMAIN writes |->
                          IF k \in written THEN Append(writes[k], c) ELSE writes[k]]
          /\ raced' = (raced \/ (cb.state = "running" /\ cb.buf = current))
    /\ UNCHANGED <<args,
                   presentation_buffer, i, pc, cb, calls>>
    /\ UNCHANGED <<primVars, utilVars>>

\* the closure of chunk c returns its rays_shot
TaskEnd(c) ==
    /\ pc = "scope"
    /\ tasks[c].state = "running"
    /\ tasks[c].chunk_pixel_i = ChunkLen(c, pixel_num * channels) \div 3
    /\ tasks' = [tasks EXCEPT ![c].state = "done"]
    /\ UNCHANGED <<args,
                   accumulator_buffers, presentation_buffer, i, pc, cb, calls, stamp,
                   writes, raced>>
    /\ UNCHANGED <<primVars, utilVars>>

\* mutant of Join: the total is added to what the buffer held
Join_Accumulate ==
    /\ pc = "scope"
    /\ \A c \in DOMAIN tasks : tasks[c].state = "done"
    /\ accumulator_buffers' =
          [accumulator_buffers EXCEPT ![Roles(i).current].rays_shot =
              @ + SumRays(tasks, DOMAIN tasks)]
    /\ pc' = "joined"
    /\ UNCHANGED <<args,
                   presentation_buffer, i, tasks, cb, calls, stamp, writes, raced>>
    /\ UNCHANGED <<primVars, utilVars>>

\* mutant of Join: the scope does not wait for its chunk closures
Join_NoBarrier ==
    /\ pc = "scope"
    /\ accumulator_buffers' =
          [accumulator_buffers EXCEPT ![Roles(i).current].rays_shot = SumRays(tasks, DOMAIN tasks)]
    /\ pc' = "joined"
    /\ UNCHANGED <<args,
                   presentation_buffer, i, tasks, cb, calls, stamp, writes, raced>>
    /\ UNCHANGED <<primVars, utilVars>>

\* `.sum()` returns once every chunk closure has returned, and
\* `current.rays_shot = ...` stores the total
Join ==
    /\ pc = "scope"
    /\ \A c \in DOMAIN tasks : tasks[c].state = "done"
    /\ accumulator_buffers' =
          [accumulator_buffers EXCEPT ![Roles(i).current].rays_shot = SumRays(tasks, DOMAIN tasks)]
    /\ pc' = "joined"
    /\ UNCHANGED <<args,
                   presentation_buffer, i, tasks, cb, calls, stamp, writes, raced>>
    /\ UNCHANGED <<primVars, utilVars>>

\* the record of one invocation f(data, buffer, sample): which buffer it was
\* handed, what the buffer held and which iteration had written each float
Invocation(buf, sample, where) ==
    [sample |-> sample,
     buf |-> buf,
     where |-> where,
     image |-> accumulator_buffers[buf].current_image,
     rays_shot |-> accumulator_buffers[buf].rays_shot,
     stamps |-> stamp[buf]]

\* random_sampler.rs 77-82: after the scope, `if i != 0 { f(data, previous, i) }`
InLoopCallback ==
    /\ pc = "joined"
    /\ variant = "random_sampler"
    /\ CallbackDue(i)
    /\ presentation_update = "Some"
    /\ cb.state = "none"
    /\ cb' = [state |-> "running", buf |-> Roles(i).previous, sample |-> i]
    /\ calls' = Append(calls, Invocation(Roles(i).previous, i, "loop"))
    /\ UNCHANGED <<args, accumulator_buffers, presentation_buffer, i, pc, tasks, stamp,
                   writes, raced>>
    /\ UNCHANGED <<primVars, utilVars>>

\* camera.rs 93-96: the spawned task runs `Some(f) => f(data, previous, i)`
CallbackStart ==
    /\ cb.state = "spawned"
    /\ presentation_update = "Some"
    /\ cb' = [cb EXCEPT !.state = "running"]
    /\ calls' = Append(calls, Invocation(cb.buf, cb.sample, "loop"))
    /\ UNCHANGED <<args, accumulator_buffers, presentation_buffer, i, pc, tasks, stamp,
                   writes, raced>>
    /\ UNCHANGED <<primVars, utilVars>>

\* camera.rs 93-96: the spawned task runs `None => ()`
CallbackNone ==
    /\ cb.state = "spawned"
    /\ presentation_update = "None"
    /\ cb' = [cb EXCEPT !.state = "returned"]
    /\ UNCHANGED <<args, accumulator_buffers, presentation_buffer, i, pc, tasks, calls,
                   stamp, writes, raced>>
    /\ UNCHANGED <<primVars, utilVars>>

\* the callback f returns
CallbackReturn ==
    /\ cb.state = "running"
    /\ cb' = [cb EXCEPT !.state = "returned"]
    /\ UNCHANGED <<args, accumulator_buffers, presentation_buffer, i, pc, tasks, calls,
                   stamp, writes, raced>>
    /\ UNCHANGED <<primVars, utilVars>>

\* the body of the loop ends.  random_sampler.rs: the scope has joined and
\* the call of f, if one was due, has returned.  camera.rs: the scope ends
\* when the chunk work and the spawned callback task have both finished.
NextIteration ==
    /\ pc = "joined"
    /\ IF variant = "random_sampler"
       THEN ~CallbackDue(i) \/ presentation_update = "None" \/ cb.state = "returned"
       ELSE cb.state \in {"none", "returned"}
    /\ i' = i + 1
    /\ pc' = "loop"
    /\ cb' = NoCallback
    /\ UNCHANGED <<args, accumulator_buffers, presentation_buffer, tasks, calls, stamp,
                   writes, raced>>
    /\ UNCHANGED <<primVars, utilVars>>

\* random_sampler.rs 85-93: after the loop, f(data, previous, samples_per_pixel)
FinalCallback ==
    /\ pc = "loop"
    /\ ~(i < samples_per_pixel)
    /\ variant = "random_sampler"
    /\ presentation_update = "Some"
    /\ cb' = [state |-> "running", buf |-> FinalPrevious(samples_per_pixel),
              sample |-> samples_per_pixel]
    /\ calls' = Append(calls, Invocation(FinalPrevious(samples_per_pixel),
                                    samples_per_pixel, "final"))
    /\ pc' = "final_callback"
    /\ UNCHANGED <<args, accumulator_buffers, presentation_buffer, i, tasks, stamp,
                   writes, raced>>
    /\ UNCHANGED <<primVars, utilVars>>

\* random_sampler.rs: sample_image returns, after the final call of f or,
\* with `None => ()`, straight after the loop
Return ==
    /\ variant = "random_sampler"
    /\ \/ pc = "final_callback" /\ cb.state = "returned"
       \/ pc = "loop" /\ ~(i < samples_per_pixel) /\ presentation_update = "None"
    /\ pc' = "done"
    /\ cb' = NoCallback
    /\ UNCHANGED <<args, accumulator_buffers, presentation_buffer, i, tasks, calls, stamp,
                   writes, raced>>
    /\ UNCHANGED <<primVars, utilVars>>

\* camera.rs 142: `*pres += (acc - *pres) / samples_per_pixel as Float`
Blend(pres, acc, spp) == FAdd(pres, FDiv(FSub(acc, pres), F(spp)))

\* camera.rs 127-145: after the loop the presentation buffer is filled from
\* `previous` and returned
FinalReturn ==
    /\ pc = "loop"
    /\ ~(i < samples_per_pixel)
    /\ variant = "camera"
    /\ LET previous == accumulator_buffers[FinalPrevious(samples_per_pixel)]
       IN presentation_buffer' =
            [samples_completed |-> presentation_buffer.samples_completed + 1,
             rays_shot |-> presentation_buffer.rays_shot + previous.rays_shot,
             current_image |->
                [k \in DOMAIN presentation_buffer.current_image |->
                    Blend(presentation_buffer.current_image[k],
                          previous.current_image[k], samples_per_pixel)]]
    /\ pc' = "done"
    /\ UNCHANGED <<args, accumulator_buffers, i, tasks, cb, calls, stamp, writes, raced>>
    /\ UNCHANGED <<primVars, utilVars>>

Next ==
    \/ LoopEnter
    \/ \E c \in DOMAIN tasks : TaskStart(c)
    \/ \E c \in DOMAIN tasks : TaskPixel(c)
    \/ \E c \in DOMAIN tasks : TaskEnd(c)
    \/ Join
    \/ InLoopCallback
    \/ CallbackStart
    \/ CallbackNone
    \/ CallbackReturn
    \/ NextIteration
    \/ FinalCallback
    \/ Return
    \/ FinalReturn

Spec == Init /\ [][Next]_vars

(***************************************************************************)
(* Properties of sample_image, checked under Spec.                         *)
(***************************************************************************)
Floats == DOMAIN writes
Pixels == 0 .. pixel_num - 1
InIteration == pc \in {"scope", "joined"}
LoopCalls == {j \in DOMAIN calls : calls[j].where = "loop"}
FinalCalls == {j \in DOMAIN calls : calls[j].where = "final"}
\* img holds colour in every pixel
ImageIs(img, colour) ==
    \A p \in Pixels : \A ch \in 0 .. channels - 1 : img[p * channels + ch] = colour[ch + 1]

\* C1: while a presentation callback runs, no chunk task writes the buffer
\* it was handed: no write into that buffer is ever observed during the
\* call, and the buffer still holds what it held when the call began.
C1_CallbackBufferStable ==
    /\ ~raced
    /\ cb.state = "running" =>
          /\ accumulator_buffers[cb.buf].current_image = calls[Len(calls)].image
          /\ stamp[cb.buf] = calls[Len(calls)].stamps

\* C1 witness: in camera.rs the callback runs while a chunk task of the
\* same scope is in the middle of its writes
C1_Witness ==
    /\ variant = "camera"
    /\ cb.state = "running"
    /\ \E c \in DOMAIN tasks : tasks[c].state = "running" /\ tasks[c].chunk_pixel_i > 0

\* C2: in every iteration i, previous and current are distinct buffers
\* picked by the parity of i (even: previous 0, current 1; odd: reversed);
\* for i >= 1 previous is the buffer that was current in iteration i-1 (the
\* one whose floats iteration i-1 wrote), and the buffer read as previous
\* is never written in iteration i.
C2_RolesAlternate ==
    InIteration =>
        LET r == Roles(i)
        IN /\ r.previous # r.current
           /\ (i % 2 = 0 => r.previous = 0 /\ r.current = 1)
           /\ (i % 2 = 1 => r.previous = 1 /\ r.current = 0)
           /\ (i >= 1 => r.previous = Roles(i - 1).current)
           /\ \A k \in Floats :
                /\ stamp[r.previous][k] # i
                /\ (i >= 1 => stamp[r.previous][k] = i - 1)
                /\ (Len(writes[k]) > 0 => stamp[r.current][k] = i)

C2_Witness ==
    /\ pc = "joined"
    /\ i = 2
    /\ pixel_num > 0

\* C3: with a callback given, it is not invoked in iteration 0; for every
\* i in 1 .. samples_per_pixel-1 it is invoked exactly once in the loop, as
\* f(data, previous, i) with previous completely written in iteration i-1;
\* the invocations come in strictly increasing order of i.
C3_InLoopCallbacks ==
    /\ \A j \in LoopCalls :
          /\ calls[j].sample >= 1
          /\ calls[j].sample <= samples_per_pixel - 1
          /\ calls[j].sample <= i
          /\ calls[j].buf = Roles(calls[j].sample).previous
          /\ \A k \in Floats : calls[j].stamps[k] = calls[j].sample - 1
    /\ \A j, k \in LoopCalls : j < k => calls[j].sample < calls[k].sample
    /\ presentation_update = "Some" =>
          \A m \in 1 .. samples_per_pixel - 1 :
              (i > m) => Cardinality({j \in LoopCalls : calls[j].sample = m}) = 1

C3_Witness ==
    /\ pc = "done"
    /\ samples_per_pixel = 3
    /\ pixel_num > 0
    /\ Cardinality(LoopCalls) = 2

\* C4: random_sampler.rs, with a callback given and at least one sample:
\* after the loop the callback is invoked exactly once more, after every
\* in-loop invocation, with sample index samples_per_pixel and the buffer
\* written in the last iteration, for both parities of samples_per_pixel.
C4_FinalCallback ==
    (variant = "random_sampler" /\ presentation_update = "Some" /\ samples_per_pixel >= 1) =>
        /\ pc \notin {"final_callback", "done"} => FinalCalls = {}
        /\ pc \in {"final_callback", "done"} =>
              /\ FinalCalls = {Len(calls)}
              /\ calls[Len(calls)].sample = samples_per_pixel
              /\ calls[Len(calls)].buf = Roles(samples_per_pixel - 1).current
              /\ \A k \in Floats : calls[Len(calls)].stamps[k] = samples_per_pixel - 1
              /\ calls[Len(calls)].image =
                    accumulator_buffers[Roles(samples_per_pixel - 1).current].current_image

C4_Witness ==
    /\ variant = "random_sampler"
    /\ pc = "done"
    /\ samples_per_pixel = 3
    /\ pixel_num > 0
    /\ FinalCalls # {}

\* C5: within one iteration every pixel is written exactly once: chunk c
\* writes only the pixels pixel_chunk_size*c ..
\* min(pixel_chunk_size*(c+1), width*height)-1, no float is written twice,
\* the three channels of a pixel are written by the same single task, and at
\* the join every float of the buffer has been written.
C5_PixelsWrittenOnce ==
    /\ \A k \in Floats :
          /\ Len(writes[k]) <= 1
          /\ Len(writes[k]) = 1 =>
                LET c == writes[k][1]
                    pixel == k \div channels
                IN /\ pixel_chunk_size * c <= pixel
                   /\ pixel <= Min(pixel_chunk_size * (c + 1), width * height) - 1
    /\ \A p \in Pixels : \A ch \in 1 .. channels - 1 :
          (Len(writes[p * channels + ch]) = 1) => writes[p * channels] = writes[p * channels + ch]
    /\ pc = "joined" => \A k \in Floats : Len(writes[k]) = 1
    /\ Cardinality(Floats) = width * height * channels

C5_Witness ==
    /\ pc = "joined"
    /\ Cardinality(DOMAIN tasks) >= 2
    /\ pixel_num % pixel_chunk_size # 0
    /\ \A k \in Floats : Len(writes[k]) = 1

\* C6 as stated: with no primitive and a constant sky colour, for any sample
\* count, every buffer random_sampler.rs hands to the callback holds the sky
\* colour in every pixel.
C6_Stated ==
    (variant = "random_sampler" /\ acceleration_structure = "empty") =>
        \A j \in DOMAIN calls : ImageIs(calls[j].image, sky)

\* C6 amended: the same for every sample count of at least 1
C6_SkyColourEveryPass ==
    (variant = "random_sampler" /\ acceleration_structure = "empty"
        /\ samples_per_pixel >= 1) =>
        \A j \in DOMAIN calls : ImageIs(calls[j].image, sky)

C6_Witness ==
    /\ variant = "random_sampler"
    /\ acceleration_structure = "empty"
    /\ sky # Black
    /\ pixel_num > 0
    /\ samples_per_pixel = 3
    /\ pc = "done"
    /\ Len(calls) = 3

\* C7 as stated: the buffer camera.rs returns holds, float for float, what
\* the last iteration wrote into its accumulation buffer.
C7_ReturnsLastPass ==
    (variant = "camera" /\ pc = "done" /\ samples_per_pixel >= 1) =>
        presentation_buffer.current_image =
            accumulator_buffers[Roles(samples_per_pixel - 1).current].current_image

\* the rays the traces of pass k consume over the pixels 0 .. n - 1
RECURSIVE PassRays(_, _)
PassRays(k, n) ==
    IF n = 0 THEN 0
    ELSE get_colour(k, (n - 1) % width, ((n - 1) - ((n - 1) % width)) \div width).rays
         + PassRays(k, n - 1)

\* C17: after iteration i completes, rays_shot of the buffer written in that
\* iteration is the sum over all chunks and pixels of the ray counts the
\* traces of iteration i returned, whatever the order of the chunk tasks; it
\* is the count of that single pass.
C17_RaysShotOfPass ==
    /\ pc = "joined" =>
          accumulator_buffers[Roles(i).current].rays_shot = PassRays(i, pixel_num)
    /\ (pc \in {"loop", "final_callback", "done"} /\ i >= 1) =>
          accumulator_buffers[Roles(i - 1).current].rays_shot = PassRays(i - 1, pixel_num)
C17_Witness ==
    /\ pc = "joined"
    /\ i = 2
    /\ acceleration_structure = "populated"
    /\ Cardinality(DOMAIN tasks) >= 2
    /\ accumulator_buffers[Roles(i).current].rays_shot = PassRays(i, pixel_num)
    /\ accumulator_buffers[Roles(i).current].rays_shot
          # accumulator_buffers[Roles(i).previous].rays_shot

\* every chunk task of the scope has completed, the callback is not pending
AllTasksDone == \A c \in DOMAIN tasks : tasks[c].state = "done"
CallbackPending == cb.state \in {"spawned", "running"}

\* C16: no chunk task of iteration i+1 starts, and the previous/current roles
\* are not swapped, until every chunk task of iteration i has completed and
\* the presentation callback of iteration i has returned; work of two
\* different iterations never overlaps.
C16_Barrier ==
    /\ []((\E c \in DOMAIN tasks : tasks[c].state \in {"ready", "running"}) => pc = "scope")
    /\ []((CallbackPending /\ pc # "final_callback") => (pc \in {"scope", "joined"} /\ cb.sample = i))
    /\ [][(i' # i \/ (tasks' # tasks /\ pc = "loop")) => (AllTasksDone /\ ~CallbackPending)]_vars
C16_Witness ==
    /\ i = 1
    /\ pc = "scope"
    /\ variant = "camera"
    /\ cb.state = "running"
    /\ \E c \in DOMAIN tasks : tasks[c].state = "running" /\ tasks[c].chunk_pixel_i > 0
    /\ \A k \in DOMAIN stamp[Roles(0).current] : stamp[Roles(0).current][k] = 0

(***************************************************************************)
(* Vec3 / Vec2 (ultraviolet) over Float, Ray, Option.                      *)
(***************************************************************************)
V3(x, y, z) == <<F(x), F(y), F(z)>>
V2(x, y) == <<F(x), F(y)>>
One3 == V3(1, 1, 1)
Dot(a, b) == FAdd(FAdd(FMul(a[1], b[1]), FMul(a[2], b[2])), FMul(a[3], b[3]))
Cross(a, b) ==
    <<FSub(FMul(a[2], b[3]), FMul(a[3], b[2])),
      FSub(FMul(a[3], b[1]), FMul(a[1], b[3])),
      FSub(FMul(a[1], b[2]), FMul(a[2], b[1]))>>
VAdd(a, b) == [k \in DOMAIN a |-> FAdd(a[k], b[k])]
VSub(a, b) == [k \in DOMAIN a |-> FSub(a[k], b[k])]
VScale(f, a) == [k \in DOMAIN a |-> FMul(f, a[k])]
VDiv(a, f) == [k \in DOMAIN a |-> FDiv(a[k], f)]
VMin(a, b) == [k \in DOMAIN a |-> IF FLt(b[k], a[k]) THEN b[k] ELSE a[k]]
VMax(a, b) == [k \in DOMAIN a |-> IF FGt(b[k], a[k]) THEN b[k] ELSE a[k]]

\* f32::sqrt on the floats whose square root is a rational; NaN below zero
IsSquare(k) == \E r \in 0 .. k : r * r = k
ISqrt(k) == CHOOSE r \in 0 .. k : r * r = k
HasExactSqrt(a) == IsFinite(a) /\ a.n >= 0 /\ IsSquare(a.n) /\ IsSquare(a.d)
FSqrt(a) ==
    IF IsNaN(a) \/ a.n < 0 THEN NaN
    ELSE IF IsInf(a) THEN a
    ELSE Rat(ISqrt(a.n), ISqrt(a.d))
Normalized(a) == VDiv(a, FSqrt(Dot(a, a)))

None == [is_some |-> FALSE]
Some(v) == [is_some |-> TRUE, value |-> v]

\* what a call comes to: it returns a value or it panics
Returned(v) == [outcome |-> "returned", value |-> v]
Panic(msg) == [outcome |-> "panicked", message |-> msg]

\* a <= b
FLe(a, b) == ~IsNaN(a) /\ ~IsNaN(b) /\ ~FGt(a, b)

\* AABB::new: a box with min above max on some axis is rejected
AABB_new(min, max) ==
    IF \E k \in 1 .. 3 : FGt(min[k], max[k])
    THEN Panic("Maximum value in AABB must be greater or equal to minimum!")
    ELSE Returned([min |-> min, max |-> max])

\* Some(AABB::new(..)), unless AABB::new panicked
Some_AABB(aabb) == IF aabb.outcome = "panicked" THEN aabb ELSE Returned(Some(aabb.value))

\* Ray::at
Ray_at(r, t) == VAdd(r.origin, VScale(t, r.direction))

\* Axis::get_axis_value, Axis::point_without_axis, Axis::return_point_with_axis
get_axis_value(axis, v) == v[axis]
point_without_axis(axis, v) ==
    IF axis = 1 THEN <<v[2], v[3]>> ELSE IF axis = 2 THEN <<v[1], v[3]>> ELSE <<v[1], v[2]>>
return_point_with_axis(axis, v) == [k \in 1 .. 3 |-> IF k = axis THEN v[k] ELSE Zero]

EPSILON == Rat(1, 10000)

\* Material::requires_uv
Material_requires_uv(m) == m.requires_uv

(***************************************************************************)
(* trait PrimitiveTrait: the default method bodies.                        *)
(***************************************************************************)
Default_get_int(self, r) == None
Default_does_int(self, r) == FALSE
Default_get_aabb(self) == Returned(None)
Default_requires_uv(self) == FALSE
Default_get_uv(self, point) == None

(***************************************************************************)
(* impl PrimitiveTrait for Sphere                                          *)
(***************************************************************************)
\* the uv pair is computed with atan2 and acos; it is kept as the point it
\* was computed from
Sphere_get_uv(self, point) ==
    IF Material_requires_uv(self.material) THEN Some([of |-> point]) ELSE None

\* lines 126-140: the Hit built for the root t; n0 is the normal before
\* the flip
Sphere_hit_at(self, r, t, point, n0) ==
    LET flip == FGt(Dot(n0, r.direction), Zero)
        normal == IF flip THEN VScale(F(-1), n0) ELSE n0
    IN Some([t |-> t,
             point |-> VAdd(point, VScale(EPSILON, normal)),
             normal |-> normal,
             uv |-> Sphere_get_uv(self, point),
             out |-> ~flip,
             material |-> self.material])
Sphere_hit(self, r, t) ==
    Sphere_hit_at(self, r, t, Ray_at(r, t),
                  VDiv(VSub(Ray_at(r, t), self.center), self.radius))

\* mutant of Sphere_root: always the larger root
Sphere_root_Larger(a, h, sqrt_disc) == FDiv(FAdd(FNeg(h), sqrt_disc), a)

\* lines 120-124: the smaller root, or the larger one when that is negative
Sphere_root(a, h, sqrt_disc) ==
    LET t == FDiv(FSub(FNeg(h), sqrt_disc), a)
    IN IF FLt(t, Zero) THEN FDiv(FAdd(FNeg(h), sqrt_disc), a) ELSE t

\* lines 114-118: a, h (b/2), c and the discriminant
Sphere_quadratic(self, r) ==
    LET oc == VSub(r.origin, self.center)
        a == Dot(r.direction, r.direction)
        h == Dot(r.direction, oc)
        c == FSub(Dot(oc, oc), FMul(self.radius, self.radius))
    IN [a |-> a, h |-> h, disc |-> FSub(FMul(h, h), FMul(a, c))]

\* line 118: h * h and a * c are Floats, each rounded before the
\* subtraction.  Where the two products are equal and not zero, the
\* difference the code computes is what the two roundings leave: zero, or a
\* residue above zero that is far below every other number of the
\* computation.  (f32: center (0, 0, 0), radius 0, origin (2.7, 2.7, 0),
\* direction (-0.9, -0.9, 0) gives disc = 1.9e-6.)
Sphere_cancels(q) == q.disc = Zero /\ q.h # Zero
\* line 119: `disc > 0.0` on the rounded discriminant
Sphere_disc_positive(q) ==
    FGt(q.disc, Zero) \/ (Sphere_cancels(q) /\ rounding = "up")

\* lines 119-143; the square root of a residue is taken as zero
Sphere_get_int_with(self, r, q) ==
    IF Sphere_disc_positive(q)
    THEN Sphere_hit(self, r, Sphere_root(q.a, q.h, FSqrt(q.disc)))
    ELSE None

Sphere_get_int(self, r) == Sphere_get_int_with(self, r, Sphere_quadratic(self, r))

\* Sphere does not override does_int
Sphere_does_int(self, r) == Default_does_int(self, r)
Sphere_get_internal(self) == <<self>>
\* mutant of Sphere_get_aabb: the corners are taken as they are
Sphere_get_aabb_Unchecked(self) ==
    Returned(Some([min |-> VSub(self.center, VScale(self.radius, One3)),
                   max |-> VAdd(self.center, VScale(self.radius, One3))]))

Sphere_get_aabb(self) ==
    Some_AABB(AABB_new(VSub(self.center, VScale(self.radius, One3)),
                       VAdd(self.center, VScale(self.radius, One3))))

(***************************************************************************)
(* impl PrimitiveTrait for AARect                                          *)
(***************************************************************************)
AARect_get_uv(self, point) ==
    IF Material_requires_uv(self.material)
    THEN LET pwa == point_without_axis(self.axis, point)
         IN Some(<<FDiv(FSub(pwa[1], self.min[1]), self.max[1]),
                   FDiv(FSub(pwa[2], self.min[2]), self.max[2])>>)
    ELSE None

\* the test shared by AARect::get_int and AARect::does_int
AARect_inside(self, point_2d) ==
    /\ FGt(point_2d[1], self.min[1])
    /\ FLt(point_2d[1], self.max[1])
    /\ FGt(point_2d[2], self.min[2])
    /\ FLt(point_2d[2], self.max[2])

\* lines 170-171 (198-199)
AARect_t(self, r) ==
    FDiv(FSub(self.k, get_axis_value(self.axis, r.origin)),
         get_axis_value(self.axis, r.direction))

\* lines 172-194
AARect_hit(self, r, t, point) ==
    IF AARect_inside(self, point_without_axis(self.axis, point))
       THEN Some([t |-> t,
                  point |-> VAdd(point, VScale(EPSILON, return_point_with_axis(self.axis, One3))),
                  normal |-> Normalized(return_point_with_axis(self.axis,
                                                               VScale(F(-1), r.direction))),
                  uv |-> AARect_get_uv(self, point),
                  out |-> TRUE,
                  material |-> self.material])
       ELSE None
AARect_get_int_at(self, r, t) == AARect_hit(self, r, t, Ray_at(r, t))
AARect_get_int(self, r) == AARect_get_int_at(self, r, AARect_t(self, r))

\* lines 200-207
AARect_does_int_at(self, r, t) ==
    AARect_inside(self, point_without_axis(self.axis, Ray_at(r, t)))
AARect_does_int(self, r) == AARect_does_int_at(self, r, AARect_t(self, r))

AARect_get_internal(self) == <<self>>
AARect_get_aabb(self) == Returned(None)

(***************************************************************************)
(* impl PrimitiveTrait for AABox                                           *)
(***************************************************************************)
\* mutant of Closer: of two hits with equal t the later one is kept
Closer_LaterOnTie(hit, current_hit, least) ==
    IF current_hit.is_some /\ FGt(current_hit.value.t, least)
    THEN (IF hit.is_some
          THEN (IF FLe(current_hit.value.t, hit.value.t) THEN current_hit ELSE hit)
          ELSE current_hit)
    ELSE hit

\* the loop of AABox::get_int from side k on, with the hit kept so far
\* the body of the loop shared by AABox::get_int (least = 0.0) and
\* TriangleMesh::get_int (least = EPSILON): the hit kept after current_hit
Closer(hit, current_hit, least) ==
    IF current_hit.is_some /\ FGt(current_hit.value.t, least)
    THEN (IF hit.is_some
          THEN (IF FLt(current_hit.value.t, hit.value.t) THEN current_hit ELSE hit)
          ELSE current_hit)
    ELSE hit

RECURSIVE AABox_scan(_, _, _, _)
AABox_scan(rects, r, k, hit) ==
    IF k > Len(rects) THEN hit
    ELSE AABox_scan(rects, r, k + 1, Closer(hit, AARect_get_int(rects[k], r), Zero))

AABox_get_int(self, r) == AABox_scan(self.rects, r, 1, None)
AABox_does_int(self, r) == \E k \in DOMAIN self.rects : AARect_does_int(self.rects[k], r)
AABox_get_internal(self) == self.rects
AABox_get_aabb(self) == Returned(None)
AABox_get_uv(self, point) == Default_get_uv(self, point)

(***************************************************************************)
(* impl PrimitiveTrait for Triangle                                        *)
(***************************************************************************)
\* Mat2 (ultraviolet): <<col0, col1>>; a[c][r] is row r of column c
Mat2_new(col0, col1) == <<col0, col1>>
Mat2_determinant(a) == FSub(FMul(a[1][1], a[2][2]), FMul(a[1][2], a[2][1]))
Mat2_mul_vec(a, b) ==
    <<FAdd(FMul(a[1][1], b[1]), FMul(a[2][1], b[2])),
      FAdd(FMul(a[1][2], b[1]), FMul(a[2][2], b[2]))>>

\* lines 278-286 (318-326): the pair uv of the point p = ray.at(t)
Triangle_uv(self, edge1, edge2, p0) ==
    LET b == <<Dot(p0, edge1), Dot(p0, edge2)>>
        a == Mat2_new(<<Dot(edge2, edge2), FMul(F(-1), Dot(edge1, edge2))>>,
                      <<FMul(F(-1), Dot(edge1, edge2)), Dot(edge1, edge1)>>)
        id == FDiv(F(1), Mat2_determinant(a))
    IN VScale(id, Mat2_mul_vec(a, b))

\* lines 275-276 (315-316): t
Triangle_t(self, r, n) ==
    FDiv(Dot(VSub(self.points[1], r.origin), n), Dot(r.direction, n))

\* lines 272-286 of Triangle::get_int, which are lines 312-326 of
\* Triangle::does_int: t and uv
Triangle_solve_at(self, r, edge1, edge2, t) ==
    [t |-> t, uv |-> Triangle_uv(self, edge1, edge2, VSub(Ray_at(r, t), self.points[1]))]
Triangle_solve_edges(self, r, edge1, edge2) ==
    Triangle_solve_at(self, r, edge1, edge2, Triangle_t(self, r, Cross(edge1, edge2)))
Triangle_solve(self, r) ==
    Triangle_solve_edges(self, r, VSub(self.points[2], self.points[1]),
                         VSub(self.points[3], self.points[1]))

\* mutant of Triangle_accept: points on the edges and vertices are accepted
Triangle_accept_Closed(t, uv) ==
    /\ FGt(t, EPSILON)
    /\ ~FLt(uv[1], Zero)
    /\ ~FLt(uv[2], Zero)
    /\ ~FGt(FAdd(uv[1], uv[2]), F(1))

\* line 288 (328)
Triangle_accept(t, uv) ==
    /\ FGt(t, EPSILON)
    /\ FGt(uv[1], Zero)
    /\ FGt(uv[2], Zero)
    /\ FLt(FAdd(uv[1], uv[2]), F(1))

\* lines 288-306
Triangle_hit(self, r, s) ==
    IF Triangle_accept(s.t, s.uv)
    THEN LET point == Ray_at(r, s.t)
             flip == FGt(Dot(self.normal, r.direction), Zero)
             normal == IF flip THEN VScale(F(-1), self.normal) ELSE self.normal
         IN Some([t |-> s.t,
                  point |-> VAdd(point, VScale(EPSILON, normal)),
                  normal |-> normal,
                  uv |-> Some(s.uv),
                  out |-> ~flip,
                  material |-> self.material])
    ELSE None

Triangle_get_int(self, r) == Triangle_hit(self, r, Triangle_solve(self, r))

\* lines 328-332
Triangle_test(s) == IF Triangle_accept(s.t, s.uv) THEN TRUE ELSE FALSE

Triangle_does_int(self, r) == Triangle_test(Triangle_solve(self, r))

Triangle_get_internal(self) == <<self>>
Triangle_get_aabb(self) ==
    Some_AABB(AABB_new(VMin(self.points[1], VMin(self.points[2], self.points[3])),
                       VMax(self.points[1], VMax(self.points[2], self.points[3]))))
Triangle_get_uv(self, point) == Default_get_uv(self, point)

(***************************************************************************)
(* impl PrimitiveTrait for TriangleMesh                                    *)
(***************************************************************************)
RECURSIVE TriangleMesh_scan(_, _, _, _)
TriangleMesh_scan(mesh, r, k, hit) ==
    IF k > Len(mesh) THEN hit
    ELSE TriangleMesh_scan(mesh, r, k + 1, Closer(hit, Triangle_get_int(mesh[k], r), EPSILON))

TriangleMesh_get_int(self, r) == TriangleMesh_scan(self.mesh, r, 1, None)
TriangleMesh_does_int(self, r) == \E k \in DOMAIN self.mesh : Triangle_does_int(self.mesh[k], r)
TriangleMesh_get_internal(self) == self.mesh
TriangleMesh_get_aabb(self) == Some_AABB(AABB_new(self.min, self.max))
TriangleMesh_get_uv(self, point) == Default_get_uv(self, point)

(***************************************************************************)
(* impl PrimitiveTrait for Primitive: the match of each method.  A call    *)
(* either returns a value or panics.                                       *)
(***************************************************************************)

Primitive_get_int(self, r) ==
    CASE self.kind = "Sphere" -> Returned(Sphere_get_int(self, r))
      [] self.kind = "AARect" -> Returned(AARect_get_int(self, r))
      [] self.kind = "AABox" -> Returned(AABox_get_int(self, r))
      [] self.kind = "Triangle" -> Returned(Triangle_get_int(self, r))
      [] self.kind = "TriangleMesh" -> Returned(TriangleMesh_get_int(self, r))
      [] self.kind = "None" -> Panic("get_int called on PrimitiveNone")

Primitive_does_int(self, r) ==
    CASE self.kind = "Sphere" -> Returned(Sphere_does_int(self, r))
      [] self.kind = "AARect" -> Returned(AARect_does_int(self, r))
      [] self.kind = "AABox" -> Returned(AABox_does_int(self, r))
      [] self.kind = "Triangle" -> Returned(Triangle_does_int(self, r))
      [] self.kind = "TriangleMesh" -> Returned(TriangleMesh_does_int(self, r))
      [] self.kind = "None" -> Panic("does_int called on PrimitiveNone")

Primitive_get_internal(self) ==
    CASE self.kind = "Sphere" -> Returned(Sphere_get_internal(self))
      [] self.kind = "AARect" -> Returned(AARect_get_internal(self))
      [] self.kind = "AABox" -> Returned(AABox_get_internal(self))
      [] self.kind = "Triangle" -> Returned(Triangle_get_internal(self))
      [] self.kind = "TriangleMesh" -> Returned(TriangleMesh_get_internal(self))
      [] self.kind = "None" -> Panic("get_internal called on PrimitiveNone")

Primitive_get_aabb(self) ==
    CASE self.kind = "Sphere" -> Sphere_get_aabb(self)
      [] self.kind = "AARect" -> AARect_get_aabb(self)
      [] self.kind = "AABox" -> AABox_get_aabb(self)
      [] self.kind = "Triangle" -> Triangle_get_aabb(self)
      [] self.kind = "TriangleMesh" -> TriangleMesh_get_aabb(self)
      [] self.kind = "None" -> Panic("get_aabb called on PrimitiveNone")

\* mutant of Primitive_get_uv_match: the sentinel arm yields None as well
Primitive_get_uv_match_NoPanic(self, point) ==
    CASE self.kind = "Sphere" -> Returned(Sphere_get_uv(self, point))
      [] self.kind = "AARect" -> Returned(AARect_get_uv(self, point))
      [] self.kind = "AABox" -> Returned(AABox_get_uv(self, point))
      [] self.kind = "Triangle" -> Returned(Triangle_get_uv(self, point))
      [] self.kind = "TriangleMesh" -> Returned(TriangleMesh_get_uv(self, point))
      [] self.kind = "None" -> Returned(None)

\* the `match self { ... };` statement of Primitive::get_uv
Primitive_get_uv_match(self, point) ==
    CASE self.kind = "Sphere" -> Returned(Sphere_get_uv(self, point))
      [] self.kind = "AARect" -> Returned(AARect_get_uv(self, point))
      [] self.kind = "AABox" -> Returned(AABox_get_uv(self, point))
      [] self.kind = "Triangle" -> Returned(Triangle_get_uv(self, point))
      [] self.kind = "TriangleMesh" -> Returned(TriangleMesh_get_uv(self, point))
      [] self.kind = "None" -> Panic("get_uv called on PrimitiveNone")

\* Primitive::get_uv: the value of the match is dropped (`};`) and the
\* method returns None, unless the match panicked
Primitive_get_uv(self, point) ==
    LET m == Primitive_get_uv_match(self, point)
    IN IF m.outcome = "panicked" THEN m ELSE Returned(None)

Primitive_requires_uv(self) ==
    CASE self.kind = "Sphere" -> Returned(Material_requires_uv(self.material))
      [] self.kind = "AARect" -> Returned(Material_requires_uv(self.material))
      [] self.kind = "AABox" -> Returned(Material_requires_uv(self.material))
      [] self.kind = "Triangle" -> Returned(Material_requires_uv(self.material))
      [] self.kind = "TriangleMesh" -> Returned(Material_requires_uv(self.material))
      [] self.kind = "None" -> Panic("requires_uv called on PrimitiveNone")

(***************************************************************************)
(* The primitives and rays the operations are applied to.                  *)
(***************************************************************************)
Material(b) == [requires_uv |-> b]
Materials == {Material(FALSE), Material(TRUE)}

Sphere_new(center, radius, material) ==
    [kind |-> "Sphere", center |-> center, radius |-> radius, material |-> material]

AARect_new(min, max, k, axis, material) ==
    [kind |-> "AARect", min |-> min, max |-> max, k |-> k, axis |-> axis,
     material |-> material]

\* AABox::new: the six sides of the box min .. max, two per axis
AABox_new(min, max, material) ==
    [kind |-> "AABox",
     rects |-> [j \in 1 .. 6 |->
                  LET axis == (j + 1) \div 2
                  IN AARect_new(point_without_axis(axis, min), point_without_axis(axis, max),
                                IF j % 2 = 1 THEN min[axis] ELSE max[axis], axis, material)],
     material |-> material]

\* Triangle::new: the stored normal is the unit normal of the plane
Triangle_new(points, material) ==
    [kind |-> "Triangle", points |-> points,
     normal |-> Normalized(Cross(VSub(points[2], points[1]), VSub(points[3], points[1]))),
     material |-> material]

RECURSIVE MeshMin(_, _)
MeshMin(mesh, k) ==
    IF k = Len(mesh) THEN Triangle_get_aabb(mesh[k]).value.value.min
    ELSE VMin(Triangle_get_aabb(mesh[k]).value.value.min, MeshMin(mesh, k + 1))
RECURSIVE MeshMax(_, _)
MeshMax(mesh, k) ==
    IF k = Len(mesh) THEN Triangle_get_aabb(mesh[k]).value.value.max
    ELSE VMax(Triangle_get_aabb(mesh[k]).value.value.max, MeshMax(mesh, k + 1))

\* TriangleMesh::new: min and max bound the triangles
TriangleMesh_new(mesh, material) ==
    [kind |-> "TriangleMesh", mesh |-> mesh,
     min |-> IF mesh = <<>> THEN V3(0, 0, 0) ELSE MeshMin(mesh, 1),
     max |-> IF mesh = <<>> THEN V3(0, 0, 0) ELSE MeshMax(mesh, 1),
     material |-> material]

Spheres ==
    {Sphere_new(c, F(rad), m) :
        c \in {V3(0, 0, 0), V3(1, 0, 0)}, rad \in -1 .. MaxRadius, m \in Materials}

Boxes == {AABox_new(V3(-1, -1, -1), V3(1, 1, 1), m) : m \in Materials}

AARects == UNION {{b.rects[j] : j \in 1 .. 6} : b \in Boxes}

\* a triangle in the plane z = 0 around the z axis, one in the plane z = 2
\* above it, and one with its three points on a line
TrianglePoints ==
    {<<V3(-1, -1, 0), V3(3, -1, 0), V3(-1, 3, 0)>>,
     <<V3(-1, -1, 2), V3(-1, 3, 2), V3(3, -1, 2)>>,
     <<V3(0, 0, 0), V3(1, 0, 0), V3(2, 0, 0)>>}
Triangles == {Triangle_new(pts, m) : pts \in TrianglePoints, m \in Materials}

Meshes ==
    {TriangleMesh_new(mesh, Material(FALSE)) :
        mesh \in {<<>>,
                  <<Triangle_new(<<V3(-1, -1, 0), V3(3, -1, 0), V3(-1, 3, 0)>>, Material(FALSE)),
                    Triangle_new(<<V3(-1, -1, 2), V3(-1, 3, 2), V3(3, -1, 2)>>, Material(FALSE))>>,
                  \* two triangles in one plane, the second larger and wound the other way
                  <<Triangle_new(<<V3(-1, -1, 2), V3(3, -1, 2), V3(-1, 3, 2)>>, Material(FALSE)),
                    Triangle_new(<<V3(-1, -1, 2), V3(-1, 7, 2), V3(7, -1, 2)>>, Material(FALSE))>>}}

PrimitiveNone == [kind |-> "None"]
Primitives == Spheres \cup AARects \cup Boxes \cup Triangles \cup Meshes \cup {PrimitiveNone}

Origins == {V3(0, 0, 5), V3(0, 0, 0), V3(0, 0, -5), V3(3, -1, 5)}
Directions == {V3(x, y, z) : x, y, z \in -MaxDir .. MaxDir}
Rays == [origin : Origins, direction : Directions]

\* the inputs on which every square root taken is a rational: those on
\* which the discriminant of Sphere::get_int is a square or not above zero
ExactDisc(disc) == ~FGt(disc, Zero) \/ HasExactSqrt(disc)
Exact(p, r) == p.kind = "Sphere" => ExactDisc(Sphere_quadratic(p, r).disc)

\* the roundings the discriminant of Sphere::get_int can see on p and r
Roundings(p, r) ==
    IF p.kind = "Sphere" /\ Sphere_cancels(Sphere_quadratic(p, r))
    THEN {"exact", "up"}
    ELSE {"exact"}

\* the state of sample_image while primitive operations are applied
SamplerIdle ==
    /\ variant = "camera"
    /\ samples_per_pixel = 0
    /\ width = 0
    /\ height = 0
    /\ sky = Black
    /\ acceleration_structure = "populated"
    /\ presentation_update = "None"
    /\ accumulator_buffers = [b \in {0, 1} |-> SamplerProgress_new(0, channels)]
    /\ presentation_buffer = SamplerProgress_new(0, channels)
    /\ i = 0
    /\ pc = "idle"
    /\ tasks = [c \in {} |-> 0]
    /\ cb = NoCallback
    /\ calls = <<>>
    /\ stamp = [b \in {0, 1} |-> [k \in {} |-> -1]]
    /\ writes = [k \in {} |-> <<>>]
    /\ raced = FALSE

InitPrimitive ==
    /\ prim \in Primitives
    /\ ray \in Rays
    /\ Exact(prim, ray)
    /\ rounding \in Roundings(prim, ray)
    /\ ret = [op |-> "none", result |-> [outcome |-> "none"]]
    /\ ppc = "ready"
    /\ SamplerIdle
    /\ SortIdle
    /\ BytesIdle
    /\ RestIdle

\* a call of one method of Primitive: it returns, or it panics and the
\* thread unwinds
Called(op, result) ==
    /\ ppc = "ready"
    /\ ret' = [op |-> op, result |-> result]
    /\ ppc' = IF result.outcome = "panicked" THEN "panicked" ELSE "ready"
    /\ UNCHANGED <<prim, ray, rounding>>
    /\ UNCHANGED <<samplerVars, utilVars>>

Call_get_int == Called("get_int", Primitive_get_int(prim, ray))
Call_does_int == Called("does_int", Primitive_does_int(prim, ray))
Call_get_internal == Called("get_internal", Primitive_get_internal(prim))
Call_get_aabb == Called("get_aabb", Primitive_get_aabb(prim))
\* the point passed is the origin of the ray
Call_get_uv == Called("get_uv", Primitive_get_uv(prim, ray.origin))
Call_requires_uv == Called("requires_uv", Primitive_requires_uv(prim))

NextPrimitive ==
    \/ Call_get_int
    \/ Call_does_int
    \/ Call_get_internal
    \/ Call_get_aabb
    \/ Call_get_uv
    \/ Call_requires_uv

SpecPrimitive == InitPrimitive /\ [][NextPrimitive]_vars

(***************************************************************************)
(* Properties of the primitive operations.                                 *)
(***************************************************************************)
HasReturned(op) == ret.op = op /\ ret.result.outcome = "returned"

\* C8: for every primitive variant and every ray, does_int returns true if
\* and only if get_int returns Some for the same ray.
C8_DoesIntIffGetInt ==
    HasReturned("does_int") =>
        (ret.result.value <=> Primitive_get_int(prim, ray).value.is_some)

\* C9: every Hit returned by get_int of any primitive variant has
\* t > EPSILON; a candidate with t <= EPSILON is reported as None.
C9_HitBeyondEpsilon ==
    (HasReturned("get_int") /\ ret.result.value.is_some) =>
        FGt(ret.result.value.value.t, EPSILON)

\* C10: a call of get_int, does_int, get_internal, get_aabb, get_uv or
\* requires_uv on the sentinel Primitive::None panics and returns no value.
C10_SentinelPanics ==
    (prim = PrimitiveNone /\ ret.op # "none") =>
        (ret.result.outcome = "panicked" /\ ppc = "panicked")
C10_Witness ==
    /\ prim = PrimitiveNone
    /\ ret.op = "get_uv"
    /\ ret.result.outcome = "panicked"
    /\ ppc = "panicked"

\* C11: Sphere::get_int of the sphere with center (0,0,0) and radius 1, on the
\* ray with origin (0,0,5) and direction (0,0,-1), returns a Hit with t = 4,
\* normal (0,0,1) and out = true.
C11_Case ==
    /\ prim.kind = "Sphere"
    /\ prim.center = V3(0, 0, 0)
    /\ prim.radius = F(1)
    /\ ray = [origin |-> V3(0, 0, 5), direction |-> V3(0, 0, -1)]
    /\ HasReturned("get_int")
C11_UnitSphereHit ==
    C11_Case =>
        /\ ret.result.value.is_some
        /\ ret.result.value.value.t = F(4)
        /\ ret.result.value.value.normal = V3(0, 0, 1)
        /\ ret.result.value.value.out = TRUE
C11_Witness == C11_Case /\ ret.result.value.is_some

(***************************************************************************)
(* sort_by_indices (src/utility/math.rs).  Slices and index vectors are    *)
(* functions on 0 .. len - 1, as in the source.                            *)
(***************************************************************************)
\* <[T]>::swap
Swap(v, a, b) == [v EXCEPT ![a] = v[b], ![b] = v[a]]

\* mutant of sort_cycle: the swap is made before the test that ends the loop
RECURSIVE sort_cycle_SwapFirst(_, _, _)
sort_cycle_SwapFirst(v, ind, current_index) ==
    LET target_index == ind[current_index]
        marked == [ind EXCEPT ![current_index] = current_index]
    IN IF marked[target_index] = target_index
       THEN [vec |-> Swap(v, current_index, target_index), indices |-> marked]
       ELSE sort_cycle_SwapFirst(Swap(v, current_index, target_index), marked, target_index)

\* the `loop` of lines 86-94, entered with current_index
RECURSIVE sort_cycle(_, _, _)
sort_cycle(v, ind, current_index) ==
    LET target_index == ind[current_index]
        marked == [ind EXCEPT ![current_index] = current_index]
    IN IF marked[target_index] = target_index
       THEN [vec |-> v, indices |-> marked]
       ELSE sort_cycle(Swap(v, current_index, target_index), marked, target_index)

\* one turn of `for index in 0..vec.len()`
sort_step(s, index) ==
    IF s.indices[index] # index THEN sort_cycle(s.vec, s.indices, index) ELSE s

\* the `for` loop from index on
RECURSIVE sort_from(_, _)
sort_from(s, index) ==
    IF index >= Cardinality(DOMAIN s.vec) THEN s
    ELSE sort_from(sort_step(s, index), index + 1)

\* sort_by_indices: vec as the call leaves it
sort_by_indices(v, ind) == sort_from([vec |-> v, indices |-> ind], 0).vec

\* the index vectors that are permutations of 0 .. n - 1
IndexPermutations(n) ==
    {f \in [0 .. n - 1 -> 0 .. n - 1] : \A a, b \in 0 .. n - 1 : f[a] = f[b] => a = b}

InitSort ==
    /\ \E n \in 0 .. MaxLen :
          /\ vec \in [0 .. n - 1 -> 0 .. MaxValue]
          /\ indices \in IndexPermutations(n)
    /\ old_vec = vec
    /\ spc = "ready"
    /\ SamplerIdle
    /\ PrimIdle
    /\ BytesIdle
    /\ RestIdle

Call_sort_by_indices ==
    /\ spc = "ready"
    /\ vec' = sort_by_indices(vec, indices)
    /\ spc' = "done"
    /\ UNCHANGED <<indices, old_vec>>
    /\ UNCHANGED <<samplerVars, primVars, byteVars, restVars>>

NextSort == Call_sort_by_indices

SpecSort == InitSort /\ [][NextSort]_vars

\* the number of positions of v that hold x
Count(v, x) == Cardinality({k \in DOMAIN v : v[k] = x})

\* C12: for every slice and every indices vector that is a permutation of
\* 0 .. n-1, after sort_by_indices the element at each position k is the
\* element that was at position indices[k] before the call, and the result is
\* a rearrangement of the input.
C12_SortedByIndices ==
    spc = "done" =>
        /\ DOMAIN vec = DOMAIN old_vec
        /\ \A k \in DOMAIN vec : vec[k] = old_vec[indices[k]]
        /\ \A x \in 0 .. MaxValue : Count(vec, x) = Count(old_vec, x)
C12_Witness ==
    /\ spc = "done"
    /\ vec # old_vec
    /\ \E k \in DOMAIN indices : indices[k] # k /\ indices[indices[k]] # k

(***************************************************************************)
(* get_progress_output (examples/cli_frontend/utility.rs): the conversion  *)
(* of the averaged image to bytes, `(value.sqrt() * 255.0) as u8`.         *)
(***************************************************************************)
ByteScale == 255
U8Max == 2 ^ 8 - 1

\* the integer part of value.sqrt() * 255.0 for a finite value >= 0, as far
\* as the cast can tell it apart: U8Max + 1 stands for every larger one
sqrt_times_scale_trunc(value) ==
    LET k == (value.n * ByteScale * ByteScale) \div value.d
    IN CHOOSE r \in 0 .. U8Max + 1 :
          r * r <= k /\ (r = U8Max + 1 \/ (r + 1) * (r + 1) > k)

\* mutant of as_u8: the cast wraps instead of saturating
as_u8_Wrapping(x) == x % (U8Max + 1)

\* `as u8` of a float that is not NaN and not negative, given its integer part
as_u8(x) == IF x > U8Max THEN U8Max ELSE x

\* line 120: NaN (also the square root of a negative value) casts to 0,
\* +infinity to 255
to_byte(value) ==
    IF IsNaN(value) \/ value.n < 0 THEN 0
    ELSE IF IsInf(value) THEN as_u8(U8Max + 1)
    ELSE as_u8(sqrt_times_scale_trunc(value))

ChannelValues ==
    {Rat(k, d) : k \in -1 .. MaxChannel, d \in 1 .. MaxChannel} \cup {NaN, Inf(1), Inf(-1)}

InitBytes ==
    /\ image \in [1 .. channels -> ChannelValues]
    /\ bytes = <<>>
    /\ bpc = "ready"
    /\ SamplerIdle
    /\ PrimIdle
    /\ SortIdle
    /\ RestIdle

\* lines 118-121: image.iter().map(..).collect()
Convert ==
    /\ bpc = "ready"
    /\ bytes' = [k \in DOMAIN image |-> to_byte(image[k])]
    /\ bpc' = "done"
    /\ UNCHANGED image
    /\ UNCHANGED <<samplerVars, primVars, sortVars, restVars>>

NextBytes == Convert

SpecBytes == InitBytes /\ [][NextBytes]_vars

\* b is the integer part of sqrt(v) * 255
IsTruncatedRoot(b, v) ==
    /\ b * b * v.d <= v.n * ByteScale * ByteScale
    /\ (b + 1) * (b + 1) * v.d > v.n * ByteScale * ByteScale

\* C13: the 8-bit conversion maps each channel value v to sqrt(v)*255
\* truncated to a byte: 0.0 maps to 0, 1.0 to 255, every result lies in
\* 0..255 with the values above 1.0 clamped to 255, and a larger v never
\* yields a smaller byte.
C13_ByteConversion ==
    bpc = "done" =>
        /\ \A k \in DOMAIN image :
              /\ bytes[k] \in 0 .. 255
              /\ image[k] = F(0) => bytes[k] = 0
              /\ image[k] = F(1) => bytes[k] = 255
              /\ FGt(image[k], F(1)) => bytes[k] = 255
              /\ (IsFinite(image[k]) /\ ~FLt(image[k], F(0)) /\ FLt(image[k], F(1)))
                    => IsTruncatedRoot(bytes[k], image[k])
        /\ \A j, k \in DOMAIN image : FLt(image[j], image[k]) => bytes[j] <= bytes[k]
C13_Witness ==
    /\ bpc = "done"
    /\ image[1] = F(0) /\ bytes[1] = 0
    /\ image[2] = Rat(1, 4) /\ bytes[2] = 127
    /\ FGt(image[3], F(1)) /\ bytes[3] = 255

\* t, u and v of the triangle prim and the ray, and the condition on them
TriangleT == Triangle_solve(prim, ray).t
TriangleU == Triangle_solve(prim, ray).uv[1]
TriangleV == Triangle_solve(prim, ray).uv[2]
StrictlyInside ==
    /\ FGt(TriangleT, EPSILON)
    /\ FGt(TriangleU, Zero)
    /\ FGt(TriangleV, Zero)
    /\ FLt(FAdd(TriangleU, TriangleV), F(1))
OnBoundary ==
    /\ FGt(TriangleT, EPSILON)
    /\ ~FLt(TriangleU, Zero)
    /\ ~FLt(TriangleV, Zero)
    /\ ~FGt(FAdd(TriangleU, TriangleV), F(1))
    /\ ~StrictlyInside

\* C14: Triangle::get_int returns Some if and only if t > EPSILON, u > 0,
\* v > 0 and u + v < 1, and Triangle::does_int returns true under exactly the
\* same condition.
C14_TriangleAcceptance ==
    prim.kind = "Triangle" =>
        /\ HasReturned("get_int") => (ret.result.value.is_some <=> StrictlyInside)
        /\ HasReturned("does_int") => (ret.result.value <=> StrictlyInside)
        /\ HasReturned("does_int") =>
              (ret.result.value <=> Primitive_get_int(prim, ray).value.is_some)
C14_Witness ==
    /\ prim.kind = "Triangle"
    /\ HasReturned("get_int")
    /\ ret.result.value.is_some
    /\ ret.result.value.value.uv = Some(<<Rat(1, 4), Rat(1, 4)>>)
    /\ Primitive_does_int(prim, ray).value = TRUE
C14_EdgeReached ==
    prim.kind = "Triangle" /\ HasReturned("get_int") /\ OnBoundary /\ ~ret.result.value.is_some
C14_VertexReached ==
    /\ prim.kind = "Triangle" /\ HasReturned("does_int") /\ OnBoundary /\ ~ret.result.value
    /\ TriangleU = F(1)

\* C15: every AABB that get_aabb returns for a Sphere, a Triangle or a
\* TriangleMesh satisfies min <= max on each of the three axes.
C15_Case ==
    /\ prim.kind \in {"Sphere", "Triangle", "TriangleMesh"}
    /\ HasReturned("get_aabb")
C15_InvertedRejected ==
    /\ prim.kind = "Sphere"
    /\ prim.radius = F(-1)
    /\ ret.op = "get_aabb"
    /\ ret.result.outcome = "panicked"

\* the two roots of the ray-sphere quadratic of prim and ray
SphereDisc == Sphere_quadratic(prim, ray).disc
SphereDiscPositive == Sphere_disc_positive(Sphere_quadratic(prim, ray))
SmallerRoot ==
    FDiv(FSub(FNeg(Sphere_quadratic(prim, ray).h), FSqrt(SphereDisc)),
         Sphere_quadratic(prim, ray).a)
LargerRoot ==
    FDiv(FAdd(FNeg(Sphere_quadratic(prim, ray).h), FSqrt(SphereDisc)),
         Sphere_quadratic(prim, ray).a)
C18_Case == prim.kind = "Sphere" /\ HasReturned("get_int")

\* the part of C18 that describes the choice of the root: None exactly when
\* the discriminant is <= 0, otherwise the smaller root when it is >= 0 and
\* the larger root when it is not
C18_RootChoice ==
    C18_Case =>
        /\ ~ret.result.value.is_some <=> ~SphereDiscPositive
        /\ ret.result.value.is_some =>
              ret.result.value.value.t =
                  (IF FLe(Zero, SmallerRoot) THEN SmallerRoot ELSE LargerRoot)

\* C18: Sphere::get_int returns None exactly when the discriminant is <= 0;
\* otherwise t is the smaller root when that root is >= 0 and the larger root
\* otherwise, so the returned root is the smaller positive one.
C18_SmallerPositiveRoot ==
    /\ C18_RootChoice
    /\ (C18_Case /\ ret.result.value.is_some) =>
          /\ FGt(ret.result.value.value.t, Zero)
          /\ \A root \in {SmallerRoot, LargerRoot} :
                FGt(root, Zero) => FLe(ret.result.value.value.t, root)

\* the hits of the six sides of the box prim, of the triangles of the mesh prim
BoxHits == [k \in 1 .. 6 |-> AARect_get_int(prim.rects[k], ray)]
MeshHits == [k \in DOMAIN prim.mesh |-> Triangle_get_int(prim.mesh[k], ray)]
Candidates(hits, least) ==
    {k \in DOMAIN hits : hits[k].is_some /\ FGt(hits[k].value.t, least)}

\* result is the first of the hits with t > least that have the smallest t,
\* or None when there is no hit with t > least
IsClosest(result, hits, least) ==
    IF Candidates(hits, least) = {} THEN result = None
    ELSE \E k \in Candidates(hits, least) :
            /\ result = hits[k]
            /\ \A j \in Candidates(hits, least) :
                  /\ FLe(hits[k].value.t, hits[j].value.t)
                  /\ hits[j].value.t = hits[k].value.t => k <= j

\* C19: AABox::get_int returns, among the hits of its six rectangles with
\* t > 0, the one with the smallest t, and None when there is none;
\* TriangleMesh::get_int returns in the same way the smallest-t hit among its
\* triangles' hits with t > EPSILON; of two candidates with equal t the
\* earlier in the list is kept.
C19_ClosestHit ==
    /\ (prim.kind = "AABox" /\ HasReturned("get_int")) =>
          IsClosest(ret.result.value, BoxHits, Zero)
    /\ (prim.kind = "TriangleMesh" /\ HasReturned("get_int")) =>
          IsClosest(ret.result.value, MeshHits, EPSILON)
C19_Witness ==
    /\ prim.kind = "TriangleMesh"
    /\ HasReturned("get_int")
    /\ Cardinality(Candidates(MeshHits, EPSILON)) = 2
    /\ MeshHits[1].value.t = MeshHits[2].value.t
    /\ MeshHits[1] # MeshHits[2]
    /\ ret.result.value = MeshHits[1]
C19_BoxReached ==
    /\ prim.kind = "AABox"
    /\ HasReturned("get_int")
    /\ Cardinality(Candidates(BoxHits, Zero)) = 2
    /\ \E k \in Candidates(BoxHits, Zero) :
          ret.result.value = BoxHits[k] /\ k # CHOOSE j \in Candidates(BoxHits, Zero) : TRUE
C19_NoneReached ==
    /\ prim.kind = "AABox"
    /\ HasReturned("get_int")
    /\ \E k \in 1 .. 6 : BoxHits[k].is_some
    /\ ret.result.value = None

\* the normal of the surface of prim at the returned hit, before any flip
GeometricNormal ==
    IF prim.kind = "Sphere"
    THEN VDiv(VSub(Ray_at(ray, ret.result.value.value.t), prim.center), prim.radius)
    ELSE prim.normal
C20_Case ==
    /\ prim.kind \in {"Sphere", "Triangle"}
    /\ HasReturned("get_int")
    /\ ret.result.value.is_some

\* C20: for every Hit returned by Sphere::get_int or Triangle::get_int the
\* dot product of the returned normal with the ray direction is <= 0, and
\* out is false exactly when the geometric normal had a positive dot product
\* with the ray direction and was flipped; otherwise out is true.
C20_NormalFacesRay ==
    C20_Case =>
        /\ FLe(Dot(ret.result.value.value.normal, ray.direction), Zero)
        /\ ret.result.value.value.out = ~FGt(Dot(GeometricNormal, ray.direction), Zero)
        /\ ret.result.value.value.normal =
              (IF ret.result.value.value.out THEN GeometricNormal
               ELSE VScale(F(-1), GeometricNormal))
C20_Witness ==
    /\ C20_Case
    /\ prim.kind = "Sphere"
    /\ ray.origin = prim.center
    /\ ret.result.value.value.out = FALSE
    /\ FLt(Dot(ret.result.value.value.normal, ray.direction), Zero)
C20_TriangleFlipReached ==
    /\ C20_Case
    /\ prim.kind = "Triangle"
    /\ ret.result.value.value.out = FALSE
C20_TriangleFrontReached ==
    /\ C20_Case
    /\ prim.kind = "Triangle"
    /\ ret.result.value.value.out = TRUE

\* what the implementation of the variant wrapped in prim returns
Variant_get_int ==
    CASE prim.kind = "Sphere" -> Sphere_get_int(prim, ray)
      [] prim.kind = "AARect" -> AARect_get_int(prim, ray)
      [] prim.kind = "AABox" -> AABox_get_int(prim, ray)
      [] prim.kind = "Triangle" -> Triangle_get_int(prim, ray)
      [] prim.kind = "TriangleMesh" -> TriangleMesh_get_int(prim, ray)
Variant_does_int ==
    CASE prim.kind = "Sphere" -> Sphere_does_int(prim, ray)
      [] prim.kind = "AARect" -> AARect_does_int(prim, ray)
      [] prim.kind = "AABox" -> AABox_does_int(prim, ray)
      [] prim.kind = "Triangle" -> Triangle_does_int(prim, ray)
      [] prim.kind = "TriangleMesh" -> TriangleMesh_does_int(prim, ray)
Variant_get_aabb ==
    CASE prim.kind = "Sphere" -> Sphere_get_aabb(prim)
      [] prim.kind = "AARect" -> AARect_get_aabb(prim)
      [] prim.kind = "AABox" -> AABox_get_aabb(prim)
      [] prim.kind = "Triangle" -> Triangle_get_aabb(prim)
      [] prim.kind = "TriangleMesh" -> TriangleMesh_get_aabb(prim)
Variant_get_uv ==
    CASE prim.kind = "Sphere" -> Sphere_get_uv(prim, ray.origin)
      [] prim.kind = "AARect" -> AARect_get_uv(prim, ray.origin)
      [] prim.kind = "AABox" -> AABox_get_uv(prim, ray.origin)
      [] prim.kind = "Triangle" -> Triangle_get_uv(prim, ray.origin)
      [] prim.kind = "TriangleMesh" -> TriangleMesh_get_uv(prim, ray.origin)

\* the dispatch of get_int, does_int and get_aabb hands on what the variant
\* returns
C21_DispatchOfOthers ==
    prim # PrimitiveNone =>
        /\ HasReturned("get_int") => ret.result.value = Variant_get_int
        /\ HasReturned("does_int") => ret.result.value = Variant_does_int
        /\ ret.op = "get_aabb" => ret.result = Variant_get_aabb

\* C21: for every Primitive other than the sentinel, get_int, does_int,
\* get_aabb and get_uv return exactly what the wrapped variant's own
\* implementation returns; in particular Primitive::get_uv(point) is Some
\* whenever the variant's get_uv(point) is Some.
C21_DispatchIsTransparent ==
    /\ C21_DispatchOfOthers
    /\ (prim # PrimitiveNone /\ HasReturned("get_uv")) => ret.result.value = Variant_get_uv

\* the normal of the plane of the triangle prim (not normalized) and the
\* determinant of the system its uv solves
TriangleEdge1 == VSub(prim.points[2], prim.points[1])
TriangleEdge2 == VSub(prim.points[3], prim.points[1])
TriangleDeterminant ==
    FSub(FMul(Dot(TriangleEdge1, TriangleEdge1), Dot(TriangleEdge2, TriangleEdge2)),
         FMul(Dot(TriangleEdge1, TriangleEdge2), Dot(TriangleEdge1, TriangleEdge2)))
ZeroRadiusSphere == prim.kind = "Sphere" /\ prim.radius = Zero
ParallelToRect == prim.kind = "AARect" /\ get_axis_value(prim.axis, ray.direction) = Zero
ParallelToTriangle ==
    prim.kind = "Triangle" /\ Dot(ray.direction, Cross(TriangleEdge1, TriangleEdge2)) = Zero
ZeroAreaTriangle == prim.kind = "Triangle" /\ TriangleDeterminant = Zero
Degenerate == ZeroRadiusSphere \/ ParallelToRect \/ ParallelToTriangle \/ ZeroAreaTriangle

\* C22: for a zero-radius sphere, a ray parallel to an AARect's plane, a ray
\* parallel to a triangle's plane and a zero-area triangle, get_int returns
\* None and does_int returns false.
C22_DegenerateNoHit ==
    Degenerate =>
        /\ HasReturned("get_int") => ret.result.value = None
        /\ HasReturned("does_int") => ret.result.value = FALSE
C22_Witness ==
    /\ ParallelToTriangle
    /\ ~ZeroAreaTriangle
    /\ Triangle_solve(prim, ray).t = Inf(1)
    /\ HasReturned("get_int")
    /\ ret.result.value = None
C22_SphereReached ==
    ZeroRadiusSphere /\ HasReturned("get_int") /\ SphereDisc = Zero /\ ray.direction # V3(0, 0, 0)
C22_RectInPlaneReached ==
    ParallelToRect /\ HasReturned("does_int") /\ IsNaN(AARect_t(prim, ray))
C22_RectReached ==
    ParallelToRect /\ HasReturned("get_int") /\ AARect_t(prim, ray) = Inf(1)
C22_ZeroAreaReached ==
    /\ ZeroAreaTriangle /\ HasReturned("get_int")
    /\ ray.direction # V3(0, 0, 0)

(***************************************************************************)
(* frontend/src/utility.rs: save_u8_to_image                               *)
(***************************************************************************)
\* the longest filename, in characters
MaxName == 3

\* a filename is a sequence of characters; a run of characters without a
\* '.' is written as one element
Words == {"out", "png", "jpg", "jpeg", "exr", "tiff", "ppm", "txt"}
Characters == Words \cup {"."}
Filenames == UNION {[1 .. n -> Characters] : n \in 0 .. MaxName}

\* str::split: the pieces between the separators, one more than there are
\* separators
RECURSIVE split(_, _)
split(str, sep) ==
    IF \A k \in 1 .. Len(str) : str[k] # sep
    THEN <<str>>
    ELSE LET k == CHOOSE k \in 1 .. Len(str) :
                      str[k] = sep /\ \A j \in 1 .. k - 1 : str[j] # sep
         IN <<SubSeq(str, 1, k - 1)>> \o split(SubSeq(str, k + 1, Len(str)), sep)

\* lines 105-136: the match on the extension
save_by_extension(extension) ==
    CASE extension \in {<<"png">>, <<"jpg">>, <<"jpeg">>, <<"exr">>, <<"tiff">>} ->
             [state |-> "returned", printed |-> "", encoder |-> "image::save_buffer"]
      [] extension = <<"ppm">> ->
             [state |-> "returned", printed |-> "", encoder |-> "ppm"]
      [] OTHER ->
             [state |-> "returned", printed |-> "Unknown filetype", encoder |-> "none"]

\* lines 96-137; split[1] is the second piece, and indexing past the end
\* of the Vec panics
save_u8_to_image(name) ==
    IF Len(split(name, ".")) # 1
    THEN [state |-> "exited", printed |-> "Invalid filename", encoder |-> "none"]
    ELSE IF Len(split(name, ".")) < 2
    THEN [state |-> "panicked", printed |-> "", encoder |-> "none"]
    ELSE save_by_extension(split(name, ".")[2])

InitSave ==
    /\ filename \in Filenames
    /\ saved = [state |-> "ready", printed |-> "", encoder |-> "none"]
    /\ FloatIdle
    /\ PollIdle
    /\ StepsIdle
    /\ SamplerIdle
    /\ PrimIdle
    /\ SortIdle
    /\ BytesIdle

Call_save_u8_to_image ==
    /\ saved.state = "ready"
    /\ saved' = save_u8_to_image(filename)
    /\ UNCHANGED <<filename, floatVars, pollVars, sorting>>
    /\ UNCHANGED <<samplerVars, primVars, sortVars, byteVars>>

NextSave == Call_save_u8_to_image

SpecSave == InitSave /\ [][NextSave]_vars

\* the filename is name.ext with one of the extensions that have an encoder
SupportedExtensions ==
    {<<"png">>, <<"jpg">>, <<"jpeg">>, <<"exr">>, <<"tiff">>, <<"ppm">>}
NameDotExt ==
    /\ Len(split(filename, ".")) = 2
    /\ split(filename, ".")[1] # <<>>
    /\ split(filename, ".")[2] \in SupportedExtensions
NoExtension == \A k \in 1 .. Len(filename) : filename[k] # "."
HasSaved == saved.state \notin {"idle", "ready"}

\* C23: save_u8_to_image called with name.ext, ext one of png, jpg, jpeg,
\* exr, tiff, ppm, selects the encoder by the extension and writes the file;
\* it reports 'Invalid filename' and exits only for a filename without an
\* extension; it never indexes past the end of the pieces of the filename.
C23_SavesByExtension ==
    HasSaved =>
        /\ NameDotExt =>
              /\ saved.state = "returned"
              /\ saved.encoder =
                    (IF split(filename, ".")[2] = <<"ppm">> THEN "ppm"
                     ELSE "image::save_buffer")
        /\ saved.state = "exited" => NoExtension
        /\ saved.state # "panicked"
\* what the code does instead: every filename with a '.' is rejected, and
\* every filename without one indexes past the end
C23_DotExits ==
    HasSaved =>
        saved = (IF NoExtension
                 THEN [state |-> "panicked", printed |-> "", encoder |-> "none"]
                 ELSE [state |-> "exited", printed |-> "Invalid filename",
                       encoder |-> "none"])
C23_PngExitsReached ==
    filename = <<"out", ".", "png">> /\ saved.state = "exited"
C23_NoExtensionPanicsReached ==
    filename = <<"out">> /\ saved.state = "panicked"

(***************************************************************************)
(* utility/math.rs: next_float, previous_float                             *)
(*                                                                         *)
(* A Float is held as its bit pattern: one sign bit, ExpBits exponent bits *)
(* and MantBits mantissa bits, the layout of f32 and f64 at a small width. *)
(***************************************************************************)
ExpBits == 3
MantBits == 2
FloatWidth == 1 + ExpBits + MantBits
BitPatterns == 0 .. 2 ^ FloatWidth - 1

SignBit(b) == b \div 2 ^ (FloatWidth - 1)
Exponent(b) == (b \div 2 ^ MantBits) % 2 ^ ExpBits
Mantissa(b) == b % 2 ^ MantBits
PlusZero == 0
MinusZero == 2 ^ (FloatWidth - 1)
PlusInfinity == (2 ^ ExpBits - 1) * 2 ^ MantBits
MinusInfinity == MinusZero + PlusInfinity

is_nan(b) == Exponent(b) = 2 ^ ExpBits - 1 /\ Mantissa(b) # 0
is_infinite(b) == Exponent(b) = 2 ^ ExpBits - 1 /\ Mantissa(b) = 0
is_finite(b) == Exponent(b) # 2 ^ ExpBits - 1

\* the number a pattern stands for, in units of the smallest subnormal; an
\* infinity is given the number one binade above the largest finite one
FloatValue(b) ==
    LET magnitude == IF Exponent(b) = 0 THEN Mantissa(b)
                     ELSE (2 ^ MantBits + Mantissa(b)) * 2 ^ (Exponent(b) - 1)
    IN IF SignBit(b) = 1 THEN -magnitude ELSE magnitude

\* the comparisons of Floats: false when an operand is NaN
float_eq(x, y) == ~is_nan(x) /\ ~is_nan(y) /\ FloatValue(x) = FloatValue(y)
float_ge(x, y) == ~is_nan(x) /\ ~is_nan(y) /\ FloatValue(x) >= FloatValue(y)
float_le(x, y) == ~is_nan(x) /\ ~is_nan(y) /\ FloatValue(x) <= FloatValue(y)
float_gt(x, y) == ~is_nan(x) /\ ~is_nan(y) /\ FloatValue(x) > FloatValue(y)
float_lt(x, y) == ~is_nan(x) /\ ~is_nan(y) /\ FloatValue(x) < FloatValue(y)

\* to_bits(float) + 1 and to_bits(float) - 1 on the unsigned pattern:
\* wrapped records an overflow (a panic in a debug build)
bits_plus_one(b) ==
    [bits |-> (b + 1) % 2 ^ FloatWidth, wrapped |-> b + 1 >= 2 ^ FloatWidth]
bits_minus_one(b) ==
    [bits |-> (b - 1) % 2 ^ FloatWidth, wrapped |-> b - 1 < 0]

\* mutant of next_float: -0.0 is not replaced by 0.0
next_float_KeepsMinusZero(x) ==
    IF is_infinite(x) /\ float_gt(x, PlusZero)
    THEN [bits |-> x, wrapped |-> FALSE]
    ELSE IF float_ge(x, PlusZero) THEN bits_plus_one(x)
         ELSE bits_minus_one(x)

\* lines 45-59
next_float(x) ==
    IF is_infinite(x) /\ float_gt(x, PlusZero)
    THEN [bits |-> x, wrapped |-> FALSE]
    ELSE LET f == IF float_eq(x, MinusZero) THEN PlusZero ELSE x
         IN IF float_ge(f, PlusZero) THEN bits_plus_one(f) ELSE bits_minus_one(f)

\* lines 61-75
previous_float(x) ==
    IF is_infinite(x) /\ float_lt(x, PlusZero)
    THEN [bits |-> x, wrapped |-> FALSE]
    ELSE LET f == IF float_eq(x, PlusZero) THEN MinusZero ELSE x
         IN IF float_le(f, PlusZero) THEN bits_plus_one(f) ELSE bits_minus_one(f)

\* g(f(float)), where first is f(float)
StepAfter(first, second) ==
    [bits |-> second.bits, wrapped |-> first.wrapped \/ second.wrapped]

InitFloat ==
    /\ float \in BitPatterns
    /\ stepped = NotStepped
    /\ SaveIdle
    /\ PollIdle
    /\ StepsIdle
    /\ SamplerIdle
    /\ PrimIdle
    /\ SortIdle
    /\ BytesIdle

Stepped(op, result) ==
    /\ stepped' = [op |-> op, bits |-> result.bits, wrapped |-> result.wrapped]
    /\ UNCHANGED <<float, saveVars, pollVars, sorting>>
    /\ UNCHANGED <<samplerVars, primVars, sortVars, byteVars>>

Call_next_float == Stepped("next_float", next_float(float))
Call_previous_float == Stepped("previous_float", previous_float(float))
Call_previous_of_next ==
    Stepped("previous_of_next",
            StepAfter(next_float(float), previous_float(next_float(float).bits)))
Call_next_of_previous ==
    Stepped("next_of_previous",
            StepAfter(previous_float(float), next_float(previous_float(float).bits)))

NextFloat ==
    \/ Call_next_float
    \/ Call_previous_float
    \/ Call_previous_of_next
    \/ Call_next_of_previous

SpecFloat == InitFloat /\ [][NextFloat]_vars

\* y is the value next above x, next below x, among the patterns that are
\* numbers or infinities
IsNextAbove(y, x) ==
    /\ float_gt(y, x)
    /\ \A z \in BitPatterns : float_gt(z, x) => float_ge(z, y)
IsNextBelow(y, x) ==
    /\ float_lt(y, x)
    /\ \A z \in BitPatterns : float_lt(z, x) => float_le(z, y)

\* C24: for every finite x, +0.0 and -0.0 included, next_float(x) is the
\* smallest representable value strictly greater than x and
\* previous_float(x) the largest strictly smaller;
\* previous_float(next_float(x)) and next_float(previous_float(x)) compare
\* equal to x; next_float(+infinity) = +infinity and
\* previous_float(-infinity) = -infinity; the arithmetic on the bit pattern
\* never overflows or underflows.
C24_UlpSteps ==
    /\ ~stepped.wrapped
    /\ (is_finite(float) /\ stepped.op = "next_float") => IsNextAbove(stepped.bits, float)
    /\ (is_finite(float) /\ stepped.op = "previous_float") =>
          IsNextBelow(stepped.bits, float)
    /\ (is_finite(float) /\ stepped.op \in {"previous_of_next", "next_of_previous"}) =>
          float_eq(stepped.bits, float)
    /\ (float = PlusInfinity /\ stepped.op = "next_float") => stepped.bits = PlusInfinity
    /\ (float = MinusInfinity /\ stepped.op = "previous_float") =>
          stepped.bits = MinusInfinity
C24_Witness ==
    /\ float = MinusZero
    /\ stepped.op = "next_float"
    /\ stepped.bits = PlusZero + 1
C24_LargestReached ==
    /\ float = PlusInfinity - 1
    /\ stepped.op = "previous_of_next"
    /\ stepped.bits = float
C24_SubnormalReached ==
    /\ float = MinusZero + 1
    /\ stepped.op = "next_float"
    /\ stepped.bits = MinusZero
C24_NaNReached == is_nan(float) /\ stepped.op = "previous_float" /\ ~stepped.wrapped

(***************************************************************************)
(* examples/cli_frontend/utility.rs: the polling loop of                   *)
(* get_progress_output, run while the samplers update their progress       *)
(***************************************************************************)
MaxProgresses == 2
MaxFinal == 2

RECURSIVE SumTo(_, _)
SumTo(counts, n) == IF n = 0 THEN 0 ELSE counts[n] + SumTo(counts, n - 1)
\* options.samples: the samplers' final counts sum to it
options_samples == SumTo(final_samples, Len(final_samples))

InitPoll ==
    /\ \E n \in 0 .. MaxProgresses :
          /\ final_samples \in [1 .. n -> 0 .. MaxFinal]
          /\ samples_completed = [k \in 1 .. n |-> 0]
    /\ poll = [pc |-> "while", k |-> 0, samples_sum |-> 0, exit |-> FALSE,
               retried |-> FALSE, torn |-> FALSE]
    /\ SaveIdle
    /\ FloatIdle
    /\ StepsIdle
    /\ SamplerIdle
    /\ PrimIdle
    /\ SortIdle
    /\ BytesIdle

\* a sampler completes one more sample, under the write lock of its
\* progress; torn records that the poller had already read this progress
\* in the round it is in
Increment(w) ==
    /\ poll.pc # "idle"
    /\ w \in 1 .. Len(samples_completed)
    /\ samples_completed[w] < final_samples[w]
    /\ samples_completed' = [samples_completed EXCEPT ![w] = @ + 1]
    /\ poll' = [poll EXCEPT !.torn = @ \/ (poll.pc = "read" /\ w < poll.k)]
    /\ UNCHANGED final_samples
    /\ UNCHANGED <<samplerVars, primVars, sortVars, byteVars, saveVars, floatVars, sorting>>

\* mutant of PollWhile: samples_sum is not set back to 0
PollWhile_KeepsSum ==
    /\ poll.pc = "while"
    /\ poll' = IF poll.exit THEN [poll EXCEPT !.pc = "done"]
               ELSE [poll EXCEPT !.pc = "read", !.k = 1]
    /\ UNCHANGED <<final_samples, samples_completed>>
    /\ UNCHANGED <<samplerVars, primVars, sortVars, byteVars, saveVars, floatVars, sorting>>

\* lines 89-90: `while !exit`, `let mut samples_sum = 0`
PollWhile ==
    /\ poll.pc = "while"
    /\ poll' = IF poll.exit THEN [poll EXCEPT !.pc = "done"]
               ELSE [poll EXCEPT !.pc = "read", !.k = 1, !.samples_sum = 0]
    /\ UNCHANGED <<final_samples, samples_completed>>
    /\ UNCHANGED <<samplerVars, primVars, sortVars, byteVars, saveVars, floatVars, sorting>>

\* lines 91-93: one progress is read, under its own read lock
PollRead ==
    /\ poll.pc = "read"
    /\ poll.k <= Len(samples_completed)
    /\ poll' = [poll EXCEPT !.samples_sum = @ + samples_completed[poll.k],
                            !.k = @ + 1]
    /\ UNCHANGED <<final_samples, samples_completed>>
    /\ UNCHANGED <<samplerVars, primVars, sortVars, byteVars, saveVars, floatVars, sorting>>

\* lines 95-102: the output, the comparison with options.samples, the sleep
PollCompare ==
    /\ poll.pc = "read"
    /\ poll.k > Len(samples_completed)
    /\ poll' = [poll EXCEPT !.pc = "while",
                            !.exit = (poll.samples_sum = options_samples),
                            !.retried = @ \/ poll.samples_sum # options_samples]
    /\ UNCHANGED <<final_samples, samples_completed>>
    /\ UNCHANGED <<samplerVars, primVars, sortVars, byteVars, saveVars, floatVars, sorting>>

Poller == PollWhile \/ PollRead \/ PollCompare

NextPoll ==
    \/ PollWhile
    \/ PollRead
    \/ PollCompare
    \/ \E w \in 1 .. MaxProgresses : Increment(w)

\* the polling thread and the samplers are threads of their own: each one
\* that can take a step eventually takes it
SpecPoll ==
    /\ InitPoll
    /\ [][NextPoll]_vars
    /\ WF_vars(Poller)
    /\ \A w \in 1 .. MaxProgresses : WF_vars(Increment(w))

AllSamplersDone ==
    \A w \in 1 .. Len(samples_completed) : samples_completed[w] = final_samples[w]
SumTaken == poll.pc = "read" /\ poll.k > Len(samples_completed)

\* C25: with counters that only increase and whose final values sum to
\* options.samples, the polling loop eventually exits, and when it exits
\* every samples_completed has reached its final value: the sum of the
\* separately read counters never equals options.samples before all
\* samplers are done.
C25_PollingExits ==
    /\ <>(poll.pc = "done")
    /\ [](poll.exit => AllSamplersDone)
    /\ []((SumTaken /\ poll.samples_sum = options_samples) => AllSamplersDone)
C25_Witness ==
    /\ poll.pc = "done"
    /\ poll.retried
    /\ poll.torn
    /\ Len(samples_completed) = MaxProgresses

(***************************************************************************)
(* utility/math.rs: sort_by_indices, one step of its loops at a time, on   *)
(* every indices vector whose entries are below the length                 *)
(***************************************************************************)
InitSortSteps ==
    /\ \E n \in 0 .. MaxLen :
          /\ vec = [k \in 0 .. n - 1 |-> k]
          /\ indices \in [0 .. n - 1 -> 0 .. n - 1]
    /\ old_vec = vec
    /\ spc = "ready"
    /\ sorting = [pc |-> "for", index |-> 0, current_index |-> 0, passes |-> 0,
                  given |-> indices]
    /\ SaveIdle
    /\ FloatIdle
    /\ PollIdle
    /\ SamplerIdle
    /\ PrimIdle
    /\ BytesIdle

\* lines 83-85, 96: the next turn of `for index in 0..vec.len()`
ForStep ==
    /\ sorting.pc = "for"
    /\ IF sorting.index >= Cardinality(DOMAIN vec)
       THEN /\ sorting' = [sorting EXCEPT !.pc = "done"]
            /\ spc' = "done"
       ELSE /\ sorting' = IF indices[sorting.index] # sorting.index
                          THEN [sorting EXCEPT !.pc = "loop",
                                               !.current_index = sorting.index]
                          ELSE [sorting EXCEPT !.index = @ + 1]
            /\ UNCHANGED spc
    /\ UNCHANGED <<vec, indices, old_vec>>
    /\ UNCHANGED <<samplerVars, primVars, byteVars, saveVars, floatVars, pollVars>>

\* mutant of LoopPass: indices[current_index] is left as it is
LoopPass_NoFixedPoint ==
    /\ sorting.pc = "loop"
    /\ sorting.passes <= Cardinality(DOMAIN vec)
    /\ LET target_index == indices[sorting.current_index]
       IN IF indices[target_index] = target_index
          THEN /\ sorting' = [sorting EXCEPT !.pc = "for", !.index = @ + 1,
                                             !.passes = @ + 1]
               /\ UNCHANGED vec
          ELSE /\ sorting' = [sorting EXCEPT !.current_index = target_index,
                                             !.passes = @ + 1]
               /\ vec' = Swap(vec, sorting.current_index, target_index)
    /\ UNCHANGED <<indices, old_vec, spc>>
    /\ UNCHANGED <<samplerVars, primVars, byteVars, saveVars, floatVars, pollVars>>

\* lines 86-95: one pass of the inner `loop`; passes counts them
LoopPass ==
    /\ sorting.pc = "loop"
    /\ sorting.passes <= Cardinality(DOMAIN vec)
    /\ LET target_index == indices[sorting.current_index]
           fixed == [indices EXCEPT ![sorting.current_index] = sorting.current_index]
       IN /\ indices' = fixed
          /\ IF fixed[target_index] = target_index
             THEN /\ sorting' = [sorting EXCEPT !.pc = "for", !.index = @ + 1,
                                                !.passes = @ + 1]
                  /\ UNCHANGED vec
             ELSE /\ sorting' = [sorting EXCEPT !.current_index = target_index,
                                                !.passes = @ + 1]
                  /\ vec' = Swap(vec, sorting.current_index, target_index)
    /\ UNCHANGED <<old_vec, spc>>
    /\ UNCHANGED <<samplerVars, primVars, byteVars, saveVars, floatVars, pollVars>>

NextSortSteps == ForStep \/ LoopPass

\* the call runs on: a step that can be taken is taken
SpecSortSteps == InitSortSteps /\ [][NextSortSteps]_vars /\ WF_vars(NextSortSteps)

\* the entries of indices that are fixed points
FixedPoints == {k \in DOMAIN indices : indices[k] = k}
IsPermutation(ind) == \A a, b \in DOMAIN ind : ind[a] = ind[b] => a = b

\* C26: sort_by_indices terminates for every slice of length n and every
\* indices vector of length n with entries below n, permutation or not: each
\* pass of the inner loop turns one more entry of indices into a fixed
\* point, so the inner loop runs at most n times in total.
C26_Terminates ==
    /\ <>(sorting.pc = "done")
    /\ [](sorting.passes <= Cardinality(DOMAIN indices))
    /\ [][sorting'.passes = sorting.passes + 1 =>
            /\ Cardinality(FixedPoints') = Cardinality(FixedPoints) + 1
            /\ FixedPoints \subseteq FixedPoints']_vars
C26_Witness ==
    /\ sorting.pc = "done"
    /\ ~IsPermutation(sorting.given)
    /\ sorting.passes >= 2
    /\ vec # old_vec
\* the steps leave vec as the function applied at once leaves it
C26_StepsAgree ==
    sorting.pc = "done" => vec = sort_by_indices(old_vec, sorting.given)
C26_AllPassesReached ==
    /\ sorting.pc = "done"
    /\ Cardinality(DOMAIN indices) = MaxLen
    /\ sorting.passes = MaxLen

====
